---------------------------- MODULE Spec2Model ----------------------------
(***************************************************************************)
(* Crossdrop: LAN peer-to-peer file sharing.                               *)
(*                                                                         *)
(* Part 1 models the connection registry (utils/connection_manager.py)     *)
(* and the handshake routes of routes/connections.py running on two        *)
(* devices.  Part 2 models the TCP transfer engine: the progress tracker   *)
(* (utils/transfer_progress.py), the inbound handler                       *)
(* (utils/transfer_service.py), receive_file and the three send routines   *)
(* (utils/file_handler.py).                                                *)
(***************************************************************************)
EXTENDS Integers, Sequences, FiniteSets, TLC

(***************************************************************************)
(* Bounds                                                                  *)
(***************************************************************************)
\* calls of ConnectionManager.request_connection, all registries together
MaxRequests == 1
\* the same, in the specification of the longer handshake histories
MaxRequestsDeep == 2

(***************************************************************************)
(* Devices and addresses                                                   *)
(***************************************************************************)
Alice == "10.0.0.5"
Bob == "10.0.0.9"
Carol == "10.0.0.7"
\* the devices that run the backend
Devices == {Alice, Bob}
\* every address a caller or a payload can name
IPs == {Alice, Bob, Carol}

\* request_id = f"req_{counter}_{timestamp}": the counter and, standing for
\* the timestamp, the device whose clock stamped it
RequestIds == {<<n, d>> : n \in 1..MaxRequestsDeep, d \in Devices}

VARIABLES
    mgr,        \* per device: the ConnectionManager (connections, pending_requests, request_counter)
    peers,      \* per device: the IPs in DiscoveryService.peers
    pc,         \* per device: the route handler occupying the event loop
    ret,        \* the response of the route handler that finished last: its status, and whether its RPC was answered 200
    call,       \* the last direct call of a ConnectionManager method: its request_id, its from_ip or peer_ip, its result;
                \* in the specification of the retry loops, the RPC attempt that ended last: its loop, its number, its outcome
    snd,        \* the outbound send routine running on Alice
    hnd,        \* the inbound handler thread (TransferService._handle_client) running on Bob
    sock,       \* the two socket objects of the TCP connection: s (sender's sock), c (receiver's client_sock)
    net,        \* bytes in flight: the metadata frame, the payload, the acknowledgment
    disk,       \* the destination file in Bob's Downloads folder
    trk,        \* per device: the TransferProgressTracker (_progress, _active_sockets)
    tcall,      \* the last call of cancel_transfer: device, transfer id, result, and the socket attached before it
    disc        \* Bob's DiscoveryService: its peer table, the wall clock, what the last expiry sweep removed,
                \* its running flag, its background threads and their open sockets

\* what the steps of a transfer leave alone
regVars == <<mgr, peers, pc, ret, call, disc>>

\* what the steps of the connection registry and its routes leave alone
xferVars == <<snd, hnd, sock, net, disk, trk, tcall, disc>>

vars == <<mgr, peers, pc, ret, call, snd, hnd, sock, net, disk, trk, tcall, disc>>

(***************************************************************************)
(* Dictionaries                                                            *)
(***************************************************************************)
EmptyDict == [k \in {} |-> TRUE]

Put(f, k, v) == [x \in (DOMAIN f) \cup {k} |-> IF x = k THEN v ELSE f[x]]

Del(f, k) == [x \in (DOMAIN f) \ {k} |-> f[x]]

(***************************************************************************)
(* ConnectionManager                                                       *)
(***************************************************************************)
NewManager ==
    [connections |-> EmptyDict, pending_requests |-> EmptyDict, request_counter |-> 0]

\* the request_id the next request_connection of a manager stamped by clock d returns
next_request_id(m, d) == <<m.request_counter + 1, d>>

mgr_request_connection(m, d, from_ip, to_ip) ==
    [m EXCEPT !.request_counter = @ + 1,
              !.pending_requests = Put(@, next_request_id(m, d),
                  [request_id |-> next_request_id(m, d), from_ip |-> from_ip,
                   to_ip |-> to_ip, status |-> "pending"])]

accept_connection_guard_nostatus(m, request_id) ==
    request_id \in DOMAIN m.pending_requests

\* lines 53-58: the two early returns
accept_connection_guard(m, request_id) ==
    /\ request_id \in DOMAIN m.pending_requests
    /\ m.pending_requests[request_id].status = "pending"

accept_connection_key_to_ip(from_ip, to_ip) == to_ip

\* line 66: the key under which the Connection is stored
accept_connection_key(from_ip, to_ip) == from_ip

mgr_accept_connection(m, request_id, from_ip, to_ip) ==
    IF ~accept_connection_guard(m, request_id)
    THEN [result |-> FALSE, m |-> m]
    ELSE [result |-> TRUE,
          m |-> [m EXCEPT !.pending_requests[request_id].status = "accepted",
                          !.connections = Put(@, accept_connection_key(from_ip, to_ip),
                              [peer_ip |-> accept_connection_key(from_ip, to_ip),
                               status |-> "connected"])]]

mgr_reject_connection(m, request_id) ==
    IF request_id \notin DOMAIN m.pending_requests
    THEN [result |-> FALSE, m |-> m]
    ELSE [result |-> TRUE,
          m |-> [m EXCEPT !.pending_requests[request_id].status = "rejected"]]

mgr_disconnect(m, peer_ip) ==
    IF peer_ip \in DOMAIN m.connections
    THEN [m EXCEPT !.connections = Del(@, peer_ip)]
    ELSE m

is_connected(m, peer_ip) ==
    /\ peer_ip \in DOMAIN m.connections
    /\ m.connections[peer_ip].status = "connected"

\* the peer_ip of every listed entry; NoIP stands for exclude_ip = None
NoIP == "none"

get_connections(m, exclude_ip) ==
    {m.connections[ip].peer_ip : ip \in
        {k \in DOMAIN m.connections :
            /\ m.connections[k].status = "connected"
            /\ (exclude_ip = NoIP \/ m.connections[k].peer_ip # exclude_ip)}}

get_pending_requests_for(m, ip) ==
    {r \in DOMAIN m.pending_requests :
        /\ m.pending_requests[r].to_ip = ip
        /\ m.pending_requests[r].status = "pending"}


(***************************************************************************)
(* Direct use of one ConnectionManager through its public methods          *)
(* (specification SpecMgr): the registry of device Bob, every argument     *)
(* drawn from the small sets above.                                        *)
(***************************************************************************)
NoId == <<0, NoIP>>

NoCall == [op |-> "none", request_id |-> NoId, ip |-> NoIP, result |-> FALSE,
           attempt |-> 0, outcome |-> "none"]

Idle == [op |-> "idle", rid |-> NoId, peer |-> NoIP, attempt |-> 0]

NoRet == [status |-> "none", delivered |-> FALSE]

InitReg ==
    /\ mgr = [d \in Devices |-> NewManager]
    /\ peers = [d \in Devices |-> {}]
    /\ pc = [d \in Devices |-> Idle]
    /\ ret = NoRet
    /\ call = NoCall

TotalRequests == mgr[Alice].request_counter + mgr[Bob].request_counter

MgrRequest(from_ip, to_ip) ==
    /\ TotalRequests < MaxRequests
    /\ mgr' = [mgr EXCEPT ![Bob] = mgr_request_connection(@, Bob, from_ip, to_ip)]
    /\ call' = [NoCall EXCEPT !.op = "request_connection",
                              !.request_id = next_request_id(mgr[Bob], Bob),
                              !.ip = from_ip, !.result = TRUE]
    /\ UNCHANGED <<peers, pc, ret>>
    /\ UNCHANGED xferVars

MgrAccept(request_id, from_ip, to_ip) ==
    /\ mgr' = [mgr EXCEPT ![Bob] = mgr_accept_connection(@, request_id, from_ip, to_ip).m]
    /\ call' = [NoCall EXCEPT !.op = "accept_connection", !.request_id = request_id,
                              !.ip = from_ip,
                              !.result = mgr_accept_connection(mgr[Bob], request_id, from_ip, to_ip).result]
    /\ UNCHANGED <<peers, pc, ret>>
    /\ UNCHANGED xferVars

MgrReject(request_id) ==
    /\ mgr' = [mgr EXCEPT ![Bob] = mgr_reject_connection(@, request_id).m]
    /\ call' = [NoCall EXCEPT !.op = "reject_connection", !.request_id = request_id,
                              !.result = mgr_reject_connection(mgr[Bob], request_id).result]
    /\ UNCHANGED <<peers, pc, ret>>
    /\ UNCHANGED xferVars

MgrDisconnect(peer_ip) ==
    /\ mgr' = [mgr EXCEPT ![Bob] = mgr_disconnect(@, peer_ip)]
    /\ call' = [NoCall EXCEPT !.op = "disconnect", !.ip = peer_ip, !.result = TRUE]
    /\ UNCHANGED <<peers, pc, ret>>
    /\ UNCHANGED xferVars

request_is_for_us_always(d, payload) == TRUE

\* `if request_data.to_ip != local_ip` (routes/connections.py:207)
request_is_for_us(d, payload) == payload.to_ip = d

\* POST /connections/incoming-request on device d
receive_incoming_request(m, d, payload) ==
    IF ~request_is_for_us(d, payload)
    THEN m
    ELSE [m EXCEPT !.pending_requests = Put(@, payload.request_id,
              [request_id |-> payload.request_id, from_ip |-> payload.from_ip,
               to_ip |-> payload.to_ip, status |-> "pending"])]

\* the route on bob, called with any payload (lines 188-235): it answers
\* "received" or "ignored"
MgrIncoming(payload) ==
    /\ mgr' = [mgr EXCEPT ![Bob] = receive_incoming_request(@, Bob, payload)]
    /\ call' = [NoCall EXCEPT !.op = "incoming_request", !.request_id = payload.request_id,
                              !.ip = payload.to_ip,
                              !.result = request_is_for_us(Bob, payload)]
    /\ UNCHANGED <<peers, pc, ret>>
    /\ UNCHANGED xferVars

connection_accepted_key_local(d, payload) == d

\* line 354: the key under which the notified Connection is stored
connection_accepted_key(d, payload) == payload.peer_ip

\* POST /connections/connection-accepted on device d
receive_connection_accepted(m, d, payload) ==
    [m EXCEPT !.connections = Put(@, connection_accepted_key(d, payload),
        [peer_ip |-> connection_accepted_key(d, payload), status |-> "connected"])]

\* the route on bob, called by any client with any payload (lines 338-364)
MgrAccepted(payload) ==
    /\ mgr' = [mgr EXCEPT ![Bob] = receive_connection_accepted(@, Bob, payload)]
    /\ call' = [NoCall EXCEPT !.op = "connection_accepted", !.ip = payload.peer_ip,
                              !.result = TRUE]
    /\ UNCHANGED <<peers, pc, ret>>
    /\ UNCHANGED xferVars

BobIds == {<<n, Bob>> : n \in 1..MaxRequests + 1}

\* the id of a request that alice sends to bob
IncomingIds == {<<1, Alice>>}

NextMgr ==
    \/ \E f \in IPs, t \in IPs : MgrRequest(f, t)
    \/ \E r \in BobIds, f \in IPs, t \in IPs : MgrAccept(r, f, t)
    \/ \E r \in BobIds : MgrReject(r)
    \/ \E p \in IPs : MgrDisconnect(p)
    \/ \E r \in IncomingIds, t \in IPs :
          MgrIncoming([request_id |-> r, from_ip |-> Alice, to_ip |-> t])
    \/ \E p \in IPs : MgrAccepted([peer_ip |-> p])

(***************************************************************************)
(* The handshake routes of routes/connections.py on the two devices        *)
(* (specification SpecNet).  Every route is an `async def` handler that    *)
(* never awaits, so a device runs one route handler at a time and is       *)
(* deaf to incoming RPCs while its handler blocks in requests.post: pc[d]  *)
(* is the handler occupying d's event loop.                                *)
(***************************************************************************)
\* max_retries of the request delivery and of the acceptance notification
max_retries == 3

\* DiscoveryService._listener_loop / _update_peer: a broadcast of p is processed by d
PeerSeen(d, p) ==
    /\ p # d
    /\ p \notin peers[d]
    /\ peers' = [peers EXCEPT ![d] = @ \cup {p}]
    /\ UNCHANGED <<mgr, pc, ret, call>>
    /\ UNCHANGED xferVars

\* DiscoveryService._cleanup_loop: the sweep evicts p
PeerExpired(d, p) ==
    /\ p \in peers[d]
    /\ peers' = [peers EXCEPT ![d] = @ \ {p}]
    /\ UNCHANGED <<mgr, pc, ret, call>>
    /\ UNCHANGED xferVars

Finish(d, status, delivered) ==
    /\ pc' = [pc EXCEPT ![d] = Idle]
    /\ ret' = [status |-> status, delivered |-> delivered]

\* one more attempt of a retry loop, or the end of the loop after max_retries
NextAttempt(d, status) ==
    IF pc[d].attempt + 1 < max_retries
    THEN /\ pc' = [pc EXCEPT ![d].attempt = @ + 1]
         /\ UNCHANGED ret
    ELSE Finish(d, status, FALSE)

\* a device that can answer an RPC now
Listening(t) == t \in Devices /\ pc[t].op = "idle"

---------------------------------------------------------------------------
disconnect_peer_ignored(m, d, payload) == m

\* POST /connections/disconnect-peer on device d
disconnect_peer(m, d, payload) == mgr_disconnect(m, payload.peer_ip)

---------------------------------------------------------------------------
peer_discovered_any(d, peer_ip) == TRUE

\* lines 78-80: the target is looked up in discovery_service.get_peers()
peer_discovered(d, peer_ip) == peer_ip \in peers[d]

\* POST /connections/request, lines 78-84: the peer is not in the peer table
RequestNotFound(d, peer_ip) ==
    /\ pc[d].op = "idle"
    /\ ~peer_discovered(d, peer_ip)
    /\ Finish(d, "404", FALSE)
    /\ UNCHANGED <<mgr, peers, call>>
    /\ UNCHANGED xferVars

\* lines 89-96
RequestAlreadyConnected(d, peer_ip) ==
    /\ pc[d].op = "idle"
    /\ peer_discovered(d, peer_ip)
    /\ is_connected(mgr[d], peer_ip)
    /\ Finish(d, "already_connected", FALSE)
    /\ UNCHANGED <<mgr, peers, call>>
    /\ UNCHANGED xferVars

\* lines 98-119: the local request is created, the delivery loop starts
RequestBegin(d, peer_ip, cap) ==
    /\ pc[d].op = "idle"
    /\ peer_discovered(d, peer_ip)
    /\ ~is_connected(mgr[d], peer_ip)
    /\ TotalRequests < cap
    /\ mgr' = [mgr EXCEPT ![d] = mgr_request_connection(@, d, d, peer_ip)]
    /\ pc' = [pc EXCEPT ![d] = [op |-> "request", rid |-> next_request_id(mgr[d], d),
                                 peer |-> peer_ip, attempt |-> 0]]
    /\ UNCHANGED <<peers, ret, call>>
    /\ UNCHANGED xferVars

RequestPayload(d) ==
    [request_id |-> pc[d].rid, from_ip |-> d, to_ip |-> pc[d].peer]

\* lines 124-143: the peer answers 200
RequestDelivered(d) ==
    /\ pc[d].op = "request"
    /\ Listening(pc[d].peer)
    /\ mgr' = [mgr EXCEPT ![pc[d].peer] =
                  receive_incoming_request(@, pc[d].peer, RequestPayload(d))]
    /\ Finish(d, "requested", TRUE)
    /\ UNCHANGED peers
    /\ UNCHANGED xferVars


\* lines 144-146: any other status code; the loop goes on
RequestBadStatus(d) ==
    /\ pc[d].op = "request"
    /\ Listening(pc[d].peer)
    /\ NextAttempt(d, "requested")
    /\ UNCHANGED <<mgr, peers>>
    /\ UNCHANGED xferVars


\* lines 148-153: connection refused; the peer saw nothing
RequestConnectionError(d) ==
    /\ pc[d].op = "request"
    /\ NextAttempt(d, "requested")
    /\ UNCHANGED <<mgr, peers>>
    /\ UNCHANGED xferVars


\* lines 154-159: no answer within 5s; the peer may have handled the request
RequestTimeout(d, processed) ==
    /\ pc[d].op = "request"
    /\ processed => Listening(pc[d].peer)
    /\ mgr' = IF processed
              THEN [mgr EXCEPT ![pc[d].peer] =
                       receive_incoming_request(@, pc[d].peer, RequestPayload(d))]
              ELSE mgr
    /\ NextAttempt(d, "requested")
    /\ UNCHANGED peers
    /\ UNCHANGED xferVars


\* lines 160-170: any other error ends the loop
RequestOtherError(d) ==
    /\ pc[d].op = "request"
    /\ Finish(d, "requested", FALSE)
    /\ UNCHANGED <<mgr, peers>>
    /\ UNCHANGED xferVars


---------------------------------------------------------------------------
\* POST /connections/accept, lines 261-265: unknown request
AcceptNotFound(d, request_id) ==
    /\ pc[d].op = "idle"
    /\ request_id \notin DOMAIN mgr[d].pending_requests
    /\ Finish(d, "404", FALSE)
    /\ UNCHANGED <<mgr, peers, call>>
    /\ UNCHANGED xferVars

\* lines 267-268: the request is not pending
AcceptNotPending(d, request_id) ==
    /\ pc[d].op = "idle"
    /\ request_id \in DOMAIN mgr[d].pending_requests
    /\ mgr[d].pending_requests[request_id].status # "pending"
    /\ Finish(d, "400", FALSE)
    /\ UNCHANGED <<mgr, peers, call>>
    /\ UNCHANGED xferVars

\* lines 270-289: the registry accepts with from_ip of the stored request and
\* to_ip = local_ip; the notification loop starts
AcceptBegin(d, request_id) ==
    /\ pc[d].op = "idle"
    /\ request_id \in DOMAIN mgr[d].pending_requests
    /\ mgr[d].pending_requests[request_id].status = "pending"
    /\ LET conn_request == mgr[d].pending_requests[request_id]
           r == mgr_accept_connection(mgr[d], request_id, conn_request.from_ip, d)
       IN  /\ mgr' = [mgr EXCEPT ![d] = r.m]
           /\ IF r.result
              THEN /\ pc' = [pc EXCEPT ![d] = [op |-> "accept", rid |-> request_id,
                                               peer |-> conn_request.from_ip, attempt |-> 0]]
                   /\ UNCHANGED ret
              ELSE Finish(d, "500", FALSE)
    /\ UNCHANGED <<peers, call>>
    /\ UNCHANGED xferVars

AcceptedPayload_from_ip(d) == [peer_ip |-> pc[d].peer]

\* lines 296-299: the notification names the accepting device
AcceptedPayload(d) == [peer_ip |-> d]

\* lines 292-305: the requester answers 200
AcceptNotifyDelivered(d) ==
    /\ pc[d].op = "accept"
    /\ Listening(pc[d].peer)
    /\ mgr' = [mgr EXCEPT ![pc[d].peer] =
                  receive_connection_accepted(@, pc[d].peer, AcceptedPayload(d))]
    /\ Finish(d, "accepted", TRUE)
    /\ UNCHANGED peers
    /\ UNCHANGED xferVars


\* lines 306-307: any other status code; the loop goes on
AcceptNotifyBadStatus(d) ==
    /\ pc[d].op = "accept"
    /\ Listening(pc[d].peer)
    /\ NextAttempt(d, "accepted")
    /\ UNCHANGED <<mgr, peers>>
    /\ UNCHANGED xferVars


\* lines 308-311: connection refused; retried
AcceptNotifyConnectionError(d) ==
    /\ pc[d].op = "accept"
    /\ NextAttempt(d, "accepted")
    /\ UNCHANGED <<mgr, peers>>
    /\ UNCHANGED xferVars


\* lines 312-316: any other exception, a read timeout included, ends the loop;
\* after a timeout the requester may have handled the notification
AcceptNotifyOtherError(d, processed) ==
    /\ pc[d].op = "accept"
    /\ processed => Listening(pc[d].peer)
    /\ mgr' = IF processed
              THEN [mgr EXCEPT ![pc[d].peer] =
                       receive_connection_accepted(@, pc[d].peer, AcceptedPayload(d))]
              ELSE mgr
    /\ Finish(d, "accepted", FALSE)
    /\ UNCHANGED peers
    /\ UNCHANGED xferVars


---------------------------------------------------------------------------
\* POST /connections/reject
RejectRoute(d, request_id) ==
    /\ pc[d].op = "idle"
    /\ LET r == mgr_reject_connection(mgr[d], request_id)
       IN  /\ mgr' = [mgr EXCEPT ![d] = r.m]
           /\ Finish(d, IF r.result THEN "rejected" ELSE "404", FALSE)
    /\ UNCHANGED <<peers, call>>
    /\ UNCHANGED xferVars

\* POST /connections/disconnect, lines 415-427: the local removal
DisconnectBegin(d, peer_ip) ==
    /\ pc[d].op = "idle"
    /\ mgr' = [mgr EXCEPT ![d] = mgr_disconnect(@, peer_ip)]
    /\ pc' = [pc EXCEPT ![d] = [op |-> "disconnect", rid |-> NoId,
                                 peer |-> peer_ip, attempt |-> 0]]
    /\ UNCHANGED <<peers, ret, call>>
    /\ UNCHANGED xferVars

\* lines 431-441: the single notification reaches the peer
DisconnectNotifyDelivered(d) ==
    /\ pc[d].op = "disconnect"
    /\ Listening(pc[d].peer)
    /\ mgr' = [mgr EXCEPT ![pc[d].peer] = disconnect_peer(@, pc[d].peer, [peer_ip |-> d])]
    /\ Finish(d, "disconnected", TRUE)
    /\ UNCHANGED <<peers, call>>
    /\ UNCHANGED xferVars

\* lines 441-445: it does not; the failure is only logged
DisconnectNotifyFailed(d) ==
    /\ pc[d].op = "disconnect"
    /\ Finish(d, "disconnected", FALSE)
    /\ UNCHANGED <<mgr, peers, call>>
    /\ UNCHANGED xferVars

NextNet(cap) ==
    \/ \E d \in Devices, p \in Devices : PeerSeen(d, p)
    \/ \E d \in Devices, p \in Devices : PeerExpired(d, p)
    \/ \E d \in Devices, p \in IPs : RequestNotFound(d, p)
    \/ \E d \in Devices, p \in IPs : RequestAlreadyConnected(d, p)
    \/ \E d \in Devices, p \in IPs : RequestBegin(d, p, cap)
    \/ \E d \in Devices : RequestDelivered(d) /\ UNCHANGED call
    \/ \E d \in Devices : RequestBadStatus(d) /\ UNCHANGED call
    \/ \E d \in Devices : RequestConnectionError(d) /\ UNCHANGED call
    \/ \E d \in Devices, processed \in BOOLEAN : RequestTimeout(d, processed) /\ UNCHANGED call
    \/ \E d \in Devices : RequestOtherError(d) /\ UNCHANGED call
    \/ \E d \in Devices, r \in RequestIds : AcceptNotFound(d, r)
    \/ \E d \in Devices, r \in RequestIds : AcceptNotPending(d, r)
    \/ \E d \in Devices, r \in RequestIds : AcceptBegin(d, r)
    \/ \E d \in Devices : AcceptNotifyDelivered(d) /\ UNCHANGED call
    \/ \E d \in Devices : AcceptNotifyBadStatus(d) /\ UNCHANGED call
    \/ \E d \in Devices : AcceptNotifyConnectionError(d) /\ UNCHANGED call
    \/ \E d \in Devices, processed \in BOOLEAN : AcceptNotifyOtherError(d, processed) /\ UNCHANGED call
    \/ \E d \in Devices, r \in RequestIds : RejectRoute(d, r)
    \/ \E d \in Devices, p \in Devices : DisconnectBegin(d, p)
    \/ \E d \in Devices : DisconnectNotifyDelivered(d)
    \/ \E d \in Devices : DisconnectNotifyFailed(d)

(***************************************************************************)
(* Claims about the registry and the handshake                             *)
(***************************************************************************)

\* C4: accept_connection(request_id, ...) returns false and leaves the request
\* map and the connection map unchanged when request_id is unknown or the
\* request is not pending; a second accept of an accepted request returns false.
C4_AcceptFailureLeavesState ==
    [][(/\ call'.op = "accept_connection"
        /\ \/ call'.request_id \notin DOMAIN mgr[Bob].pending_requests
           \/ mgr[Bob].pending_requests[call'.request_id].status # "pending")
       => (call'.result = FALSE /\ mgr' = mgr)]_vars

\* a second accept_connection on an accepted request has just returned false
C4_Witness ==
    /\ call.op = "accept_connection"
    /\ call.result = FALSE
    /\ call.request_id \in DOMAIN mgr[Bob].pending_requests
    /\ mgr[Bob].pending_requests[call.request_id].status = "accepted"
    /\ call.ip \in DOMAIN mgr[Bob].connections

\* C5 (as claimed): accepted and rejected are terminal; no registry operation
\* changes the status of a request that is accepted or rejected.
C5_TerminalStatuses ==
    [][\A r \in DOMAIN mgr[Bob].pending_requests :
          mgr[Bob].pending_requests[r].status \in {"accepted", "rejected"}
          => /\ r \in DOMAIN mgr'[Bob].pending_requests
             /\ mgr'[Bob].pending_requests[r].status = mgr[Bob].pending_requests[r].status]_vars

\* C6 (as claimed): a successful accept on device B of a request from A # B adds
\* exactly one Connection, keyed by A; afterwards get_connections() contains A
\* and not B, and is_connected(A) is true.
C6_AcceptAddsOnlyPeer ==
    [][\A b \in Devices :
          (pc[b].op = "idle" /\ pc'[b].op = "accept" /\ pc'[b].peer # b)
          => /\ DOMAIN mgr'[b].connections = DOMAIN mgr[b].connections \cup {pc'[b].peer}
             /\ pc'[b].peer \in get_connections(mgr'[b], NoIP)
             /\ b \notin get_connections(mgr'[b], NoIP)
             /\ is_connected(mgr'[b], pc'[b].peer)]_vars

\* C7 (as claimed): on every device, in every reachable state, the connection
\* map has no entry keyed by the device's own IP.
C7_NoSelfConnection ==
    \A d \in Devices : d \notin DOMAIN mgr[d].connections

\* C8: when B has accepted A's request and B's acceptance notification is
\* answered 200 by A, is_connected(A) holds on B and is_connected(B) holds on A.
C8_BothSidesConnected ==
    [][\A b \in Devices :
          (pc[b].op = "accept" /\ pc'[b].op = "idle" /\ ret'.delivered)
          => /\ is_connected(mgr'[b], pc[b].peer)
             /\ is_connected(mgr'[pc[b].peer], b)]_vars

\* an acceptance notification has been answered 200 and both sides are connected
C8_Witness ==
    /\ ret.status = "accepted" /\ ret.delivered
    /\ \E a \in Devices, b \in Devices :
          /\ a # b
          /\ is_connected(mgr[a], b)
          /\ is_connected(mgr[b], a)

\* C9 (as claimed): once bob has accepted alice's request and his accept route
\* has finished, is_connected(10.0.0.9) is false on alice's registry.
C9_AliceNotConnectedToBob ==
    [][(pc[Bob].op = "accept" /\ pc[Bob].peer = Alice /\ pc'[Bob].op = "idle")
       => ~is_connected(mgr'[Alice], Bob)]_vars

\* C9 (amended): once bob has accepted alice's request and his notification has
\* been answered 200 by alice, is_connected(10.0.0.9) is true on alice's registry.
C9_AliceTracksBob ==
    [][(pc[Bob].op = "accept" /\ pc[Bob].peer = Alice /\ pc'[Bob].op = "idle"
            /\ ret'.delivered)
       => is_connected(mgr'[Alice], Bob)]_vars

\* bob's notification for alice's request was answered 200; alice tracks bob
C9_Witness ==
    /\ ret.status = "accepted" /\ ret.delivered
    /\ pc[Bob].op = "idle"
    /\ \E r \in DOMAIN mgr[Bob].pending_requests :
          /\ mgr[Bob].pending_requests[r].from_ip = Alice
          /\ mgr[Bob].pending_requests[r].to_ip = Bob
          /\ mgr[Bob].pending_requests[r].status = "accepted"
    /\ is_connected(mgr[Alice], Bob)
    /\ Alice \notin DOMAIN mgr[Alice].connections

(***************************************************************************)
(* Part 2.  The transfer engine (specification SpecXfer): one send routine *)
(* on Alice, one TCP connection, its handler thread on Bob, the progress   *)
(* tracker of each process, and the cancel route.                          *)
(***************************************************************************)
\* payload bytes of the source and of the declared size
MaxBytes == 3
\* CHUNK_SIZE (64 KB), OPTIMAL_CHUNK_SIZE (1 MB) and PROGRESS_UPDATE_INTERVAL
\* (1 MB) of file_handler.py:14-18, scaled to files of a few bytes: the send
\* chunk stays smaller than the receive chunk and the progress interval
CHUNK_SIZE == 1
OPTIMAL_CHUNK_SIZE == 2
PROGRESS_UPDATE_INTERVAL == 2

Min(a, b) == IF a < b THEN a ELSE b
Max(a, b) == IF a > b THEN a ELSE b

\* the source of a send: its first n bytes
Source(n) == [i \in 1..n |-> i]

Take(q, n) == SubSeq(q, 1, n)
Drop(q, n) == SubSeq(q, n + 1, Len(q))

\* uuid4 of the upload route and of on_metadata
TxId == "tx"
RxId == "rx"

---------------------------------------------------------------------------
\* TransferProgressTracker
NewTracker == [progress |-> EmptyDict, sockets |-> EmptyDict]

None == [status |-> "None"]

create_transfer(t, id, direction, sender_ip, receiver_ip, filename, file_size) ==
    [t EXCEPT !.progress = Put(@, id,
        [direction |-> direction, sender_ip |-> sender_ip, receiver_ip |-> receiver_ip,
         filename |-> filename, file_size |-> file_size, bytes_transferred |-> 0,
         status |-> "active"])]

update_progress(t, id, bytes_transferred) ==
    IF id \notin DOMAIN t.progress
    THEN t
    ELSE [t EXCEPT !.progress[id].bytes_transferred = bytes_transferred]

get_progress(t, id) ==
    IF id \in DOMAIN t.progress THEN t.progress[id] ELSE None

NoDirection == "any"

get_transfers_by_ip(t, ip, direction) ==
    {id \in DOMAIN t.progress :
        /\ (t.progress[id].sender_ip = ip \/ t.progress[id].receiver_ip = ip)
        /\ (direction = NoDirection \/ t.progress[id].direction = direction)}

complete_transfer(t, id) ==
    IF id \in DOMAIN t.progress
    THEN [t EXCEPT !.progress[id].status = "completed"]
    ELSE t

fail_transfer_ignored(t, id) == t

fail_transfer(t, id) ==
    IF id \in DOMAIN t.progress
    THEN [t EXCEPT !.progress[id].status = "failed"]
    ELSE t

set_socket(t, id, socket_obj) ==
    IF id \in DOMAIN t.progress
    THEN [t EXCEPT !.sockets = Put(@, id, socket_obj)]
    ELSE t

NoSocket == "nosocket"

cancel_guard_known(t, id) == id \in DOMAIN t.progress

\* lines 124-129 of transfer_progress.py: the two early returns
cancel_guard(t, id) ==
    /\ id \in DOMAIN t.progress
    /\ t.progress[id].status = "active"

cancel_keep_entry(progress, id) == [progress EXCEPT ![id].status = "cancelled"]

\* lines 132 and 143-145: marked cancelled, then deleted
cancel_remove_entry(progress, id) == Del([progress EXCEPT ![id].status = "cancelled"], id)

\* lines 135-141: the socket that is closed
cancel_socket(t, id) ==
    IF id \in DOMAIN t.sockets THEN t.sockets[id] ELSE NoSocket

\* result, the socket closed on the way, the tracker afterwards
cancel_transfer(t, id) ==
    IF ~cancel_guard(t, id)
    THEN [result |-> FALSE, closed |-> NoSocket, t |-> t]
    ELSE [result |-> TRUE,
          closed |-> cancel_socket(t, id),
          t |-> [progress |-> cancel_remove_entry(t.progress, id),
                 sockets |-> Del(t.sockets, id)]]

remove_transfer(t, id) ==
    [progress |-> Del(t.progress, id), sockets |-> Del(t.sockets, id)]

---------------------------------------------------------------------------
\* The TCP connection.  A send on a socket closed in this process raises; a
\* send towards a peer that has closed either raises or is dropped by the
\* kernel; a recv on a socket closed in this process raises; a recv with no
\* data returns b'' once the peer has closed.
NoMeta == [filename |-> "", size |-> 0 - 1]

OK == <<"O", "K">>

\* what the upload route was handed: file.size, the part's content-length
\* header, and whether the route has run
NoUpload == [routed |-> FALSE, size |-> 0, has_length |-> FALSE, length |-> 0]

IdleSender ==
    [pc |-> "idle", kind |-> "none", filename |-> "", size |-> 0, src |-> 0,
     read |-> 0, sent |-> 0, last |-> 0, meta_sent |-> FALSE,
     ack |-> [got |-> FALSE, bytes |-> <<>>], ret |-> "none", allowed |-> FALSE,
     error |-> "none", upload |-> NoUpload]

NoHandler ==
    [pc |-> "none", unauthorized |-> FALSE, meta_read |-> FALSE, filename |-> "",
     size |-> 0, transfer_id |-> "none", acked |-> FALSE, total |-> 0, last |-> 0,
     file_path |-> "none", file_size |-> 0, progress_info |-> "none",
     outcome |-> "none"]

NoTCall == [device |-> NoIP, id |-> "none", result |-> FALSE, was_active |-> FALSE,
            socket |-> NoSocket, reading |-> FALSE, cancelled |-> {}]

InitXfer ==
    /\ snd = IdleSender
    /\ hnd = NoHandler
    /\ sock = [s |-> "none", c |-> "none"]
    /\ net = [meta |-> NoMeta, data |-> <<>>, ack |-> <<>>]
    /\ disk = [exists |-> FALSE, bytes |-> <<>>]
    /\ trk = [d \in Devices |-> NewTracker]
    /\ tcall = NoTCall

\* the three background loops of DiscoveryService, and where a thread that
\* runs one can be: before its socket exists, at the `while self.running`
\* test, inside the loop body
LoopKinds == {"broadcast", "listener", "cleanup"}
LoopPcs == {"init", "check", "body"}

\* per loop and position, the number of threads there
NoThreads == [k \in LoopKinds |-> [p \in LoopPcs |-> 0]]

\* DiscoveryService.__init__ (discovery_service.py:32-44)
NewDiscovery ==
    [peers |-> <<>>, now |-> 0, swept |-> FALSE, expired_peers |-> {},
     running |-> FALSE, starts |-> 0, threads |-> NoThreads,
     sockets |-> [broadcast |-> 0, listener |-> 0]]

Init == InitReg /\ InitXfer /\ disc = NewDiscovery

SpecMgr == Init /\ [][NextMgr]_vars

SpecNet == Init /\ [][NextNet(MaxRequests)]_vars

SpecNetDeep == Init /\ [][NextNet(MaxRequestsDeep)]_vars

\* the three send routines, and any other client of the wire protocol
Kinds == {"file", "stream", "chunked"}
Clients == Kinds \cup {"raw"}

\* send_file has no callbacks; the upload route gives the other two both
HasCallbacks(kind) == kind \in {"stream", "chunked"}

\* the routine fails: every except clause returns False, then finally closes
SendFails == [snd EXCEPT !.ret = "false", !.pc = "close"]

\* an exception is raised inside the try block: socket.timeout or
\* ConnectionRefusedError from connect, any other error from the socket calls
Raised(error) == [SendFails EXCEPT !.error = error]

\* a caller starts a send.  send_file takes name and size from the file itself
\* (file_handler.py:416-418); the upload route names the file
\* (`file.filename or "unnamed_file"`), creates the tracker entry with the
\* declared size (routes/transfer.py:183-191) and either streams at once
\* or first reads the whole upload (line 250)
send_allowed_always(m, target_ip) == TRUE

\* `if not connection_manager.is_connected(target_ip)` of both send routes
\* (routes/transfer.py:66-72, 155-161)
send_allowed(m, target_ip) == is_connected(m, target_ip)

\* the registry's answer at the time of the call
ConnectedNow(d, peer_ip) ==
    /\ peer_ip \in DOMAIN mgr[d].connections
    /\ mgr[d].connections[peer_ip].status = "connected"

\* the route answers 403 and does nothing else
SendForbidden(kind) ==
    /\ snd.pc = "idle"
    /\ kind \in Kinds
    /\ ~send_allowed(mgr[Alice], Bob)
    /\ snd' = [IdleSender EXCEPT !.pc = "done", !.kind = kind, !.ret = "403",
                                 !.allowed = ConnectedNow(Alice, Bob)]
    /\ UNCHANGED <<hnd, sock, net, disk, trk, tcall>>
    /\ UNCHANGED regVars

SendCall(kind, filename, size, srclen) ==
    /\ snd.pc = "idle"
    /\ kind \in Kinds => send_allowed(mgr[Alice], Bob)
    /\ kind \in Kinds => filename = "f"
    /\ snd' = [IdleSender EXCEPT !.pc = IF kind = "stream" THEN "begin" ELSE "connect",
                                 !.kind = kind, !.filename = filename,
                                 !.size = size, !.src = srclen,
                                 !.allowed = ConnectedNow(Alice, Bob)]
    /\ trk' = IF HasCallbacks(kind)
              THEN [trk EXCEPT ![Alice] =
                      create_transfer(@, TxId, "send", Alice, Bob, filename, size)]
              ELSE trk
    /\ UNCHANGED <<hnd, sock, net, disk, tcall>>
    /\ UNCHANGED regVars

\* the source is as long as the size the caller declares: send_file sends a
\* file that nobody changes after `stat().st_size` (file_handler.py:417), the
\* upload route hands send_file_from_stream `len(file_content)`
\* (routes/transfer.py:251); the upload's declared size for the chunked
\* routine comes from the request and may differ from what the stream yields
SendStart(kind, filename, size, srclen) ==
    /\ kind \in {"file", "stream"} => size = srclen
    /\ SendCall(kind, filename, size, srclen)

\* the in-memory strategy after `await file.read()`: an empty upload is
\* refused (lines 253-255), otherwise the whole size is reported (line 258)
SendBegin ==
    /\ snd.pc = "begin"
    /\ IF snd.src = 0
       THEN /\ trk' = [trk EXCEPT ![Alice] = remove_transfer(@, TxId)]
            /\ snd' = [snd EXCEPT !.pc = "done"]
       ELSE /\ trk' = [trk EXCEPT ![Alice] = update_progress(@, TxId, snd.size)]
            /\ snd' = [snd EXCEPT !.pc = "connect"]
    /\ UNCHANGED <<hnd, sock, net, disk, tcall>>
    /\ UNCHANGED regVars

\* sock.connect succeeds: the server loop accepts and starts the handler thread
SendConnect ==
    /\ snd.pc = "connect"
    /\ hnd.pc = "none"
    /\ sock' = [s |-> "open", c |-> "open"]
    /\ hnd' = [hnd EXCEPT !.pc = "auth"]
    /\ snd' = [snd EXCEPT !.pc = IF HasCallbacks(snd.kind) THEN "store" ELSE "meta"]
    /\ UNCHANGED <<net, disk, trk, tcall>>
    /\ UNCHANGED regVars

\* connect times out or is refused
SendConnectFail ==
    /\ snd.pc = "connect"
    /\ snd' = Raised("connect")
    /\ UNCHANGED <<hnd, sock, net, disk, trk, tcall>>
    /\ UNCHANGED regVars

\* socket_store_callback(sock)
SendStore ==
    /\ snd.pc = "store"
    /\ trk' = [trk EXCEPT ![Alice] = set_socket(@, TxId, "s")]
    /\ snd' = [snd EXCEPT !.pc = "meta"]
    /\ UNCHANGED <<hnd, sock, net, disk, tcall>>
    /\ UNCHANGED regVars

\* sock.send(metadata_json)
SendMeta(dropped) ==
    /\ snd.pc = "meta"
    /\ sock.s = "open"
    /\ dropped <=> sock.c # "open"
    /\ net' = IF dropped THEN net
              ELSE [net EXCEPT !.meta = [filename |-> snd.filename, size |-> snd.size]]
    /\ snd' = [snd EXCEPT !.pc = "ack", !.meta_sent = TRUE]
    /\ UNCHANGED <<hnd, sock, disk, trk, tcall>>
    /\ UNCHANGED regVars

SendMetaError ==
    /\ snd.pc = "meta"
    /\ sock.s # "open" \/ sock.c # "open"
    /\ snd' = Raised("socket")
    /\ UNCHANGED <<hnd, sock, net, disk, trk, tcall>>
    /\ UNCHANGED regVars

ack_ok_nonempty(bytes) == bytes # <<>>

\* `if ack != b'OK': return False`
ack_ok(bytes) == bytes = OK

AfterAck(bytes) ==
    IF ack_ok(bytes)
    THEN [snd EXCEPT !.ack = [got |-> TRUE, bytes |-> bytes], !.pc = "loop"]
    ELSE [SendFails EXCEPT !.ack = [got |-> TRUE, bytes |-> bytes]]

\* ack = sock.recv(2) returns the k bytes that have arrived
SendRecvAck(k) ==
    /\ snd.pc = "ack"
    /\ sock.s = "open"
    /\ k \in 1..Min(2, Len(net.ack))
    /\ net' = [net EXCEPT !.ack = Drop(@, k)]
    /\ snd' = AfterAck(Take(net.ack, k))
    /\ UNCHANGED <<hnd, sock, disk, trk, tcall>>
    /\ UNCHANGED regVars

\* the receiver has closed: recv returns b''
SendRecvAckEOF ==
    /\ snd.pc = "ack"
    /\ sock.s = "open"
    /\ net.ack = <<>>
    /\ sock.c = "closed"
    /\ snd' = AfterAck(<<>>)
    /\ UNCHANGED <<hnd, sock, net, disk, trk, tcall>>
    /\ UNCHANGED regVars

\* recv raises: timeout, reset, or the socket was closed by cancel_transfer
SendRecvAckError ==
    /\ snd.pc = "ack"
    /\ sock.s # "open" \/ net.ack = <<>>
    /\ snd' = Raised("socket")
    /\ UNCHANGED <<hnd, sock, net, disk, trk, tcall>>
    /\ UNCHANGED regVars

\* the loop condition of each routine: `while total_sent < file_size` for
\* send_file and send_file_from_stream, `while True` for the chunked one
LoopContinues == snd.kind = "chunked" \/ snd.sent < snd.size

\* the next chunk: f.read(CHUNK_SIZE), file_data[total_sent:total_sent+CHUNK_SIZE],
\* file_stream.read(OPTIMAL_CHUNK_SIZE)
ChunkLen ==
    IF snd.kind = "chunked"
    THEN Min(OPTIMAL_CHUNK_SIZE, snd.src - snd.read)
    ELSE Min(CHUNK_SIZE, Max(0, snd.src - snd.sent))

Chunk == SubSeq(Source(snd.src), snd.read + 1, snd.read + ChunkLen)

\* sock.sendall(chunk), the counter and the throttled progress callback
SendChunk(dropped) ==
    /\ snd.pc = "loop"
    /\ LoopContinues
    /\ ChunkLen > 0
    /\ sock.s = "open"
    /\ dropped <=> sock.c # "open"
    /\ net' = IF dropped THEN net ELSE [net EXCEPT !.data = @ \o Chunk]
    /\ LET total_sent == snd.sent + ChunkLen
           report == HasCallbacks(snd.kind) /\ total_sent - snd.last >= PROGRESS_UPDATE_INTERVAL
       IN  /\ snd' = [snd EXCEPT !.sent = total_sent, !.read = @ + ChunkLen,
                                 !.last = IF report THEN total_sent ELSE @]
           /\ trk' = IF report
                     THEN [trk EXCEPT ![Alice] = update_progress(@, TxId, total_sent)]
                     ELSE trk
    /\ UNCHANGED <<hnd, sock, disk, tcall>>
    /\ UNCHANGED regVars

\* sendall raises: the chunk was read from the source but is not counted
SendChunkError ==
    /\ snd.pc = "loop"
    /\ LoopContinues
    /\ ChunkLen > 0
    /\ sock.s # "open" \/ sock.c # "open"
    /\ snd' = [Raised("socket") EXCEPT !.read = @ + ChunkLen]
    /\ UNCHANGED <<hnd, sock, net, disk, trk, tcall>>
    /\ UNCHANGED regVars

\* what each routine returns after its loop: only the chunked one compares
\* the total with the declared size (lines 380-382)
LoopResult ==
    IF snd.kind = "chunked" /\ snd.size > 0 /\ snd.sent # snd.size
    THEN "false"
    ELSE "true"

\* the loop ends (condition false or empty read); final progress update
SendLoopEnd ==
    /\ snd.pc = "loop"
    /\ ~LoopContinues \/ ChunkLen = 0
    /\ snd' = [snd EXCEPT !.ret = LoopResult, !.pc = "close", !.last = snd.sent]
    /\ trk' = IF HasCallbacks(snd.kind) /\ snd.last < snd.sent
              THEN [trk EXCEPT ![Alice] = update_progress(@, TxId, snd.sent)]
              ELSE trk
    /\ UNCHANGED <<hnd, sock, net, disk, tcall>>
    /\ UNCHANGED regVars

finally_nothing(sk) == sk

\* `finally: if sock: sock.close()`
finally_close(sk) == [sk EXCEPT !.s = "closed"]

\* the routine leaves through its finally clause
SendClose ==
    /\ snd.pc = "close"
    /\ sock' = finally_close(sock)
    /\ snd' = [snd EXCEPT !.pc = IF HasCallbacks(snd.kind) THEN "route" ELSE "done"]
    /\ UNCHANGED <<hnd, net, disk, trk, tcall>>
    /\ UNCHANGED regVars

\* the upload route after the routine: routes/transfer.py lines 244-246 for a
\* stream of unknown size, then complete_transfer or fail_transfer
SendRouteEnd ==
    /\ snd.pc = "route"
    /\ trk' = [trk EXCEPT ![Alice] =
                 LET t == IF snd.kind = "chunked" /\ snd.size = 0
                          THEN update_progress(@, TxId, snd.read)
                          ELSE @
                 IN  IF snd.ret = "true" THEN complete_transfer(t, TxId)
                                         ELSE fail_transfer(t, TxId)]
    /\ snd' = [snd EXCEPT !.pc = "done"]
    /\ UNCHANGED <<hnd, sock, net, disk, tcall>>
    /\ UNCHANGED regVars

---------------------------------------------------------------------------
\* TransferService._handle_client on bob, one thread per accepted connection,
\* with receive_file inlined at its call (transfer_service.py:181-186).

handler_authorized_always(m, sender_ip) == TRUE

\* `if not self.connection_manager.is_connected(sender_ip)` (line 102)
handler_authorized(m, sender_ip) == is_connected(m, sender_ip)

\* lines 101-110: an unconnected sender is turned away
HandleAuthReject ==
    /\ hnd.pc = "auth"
    /\ ~handler_authorized(mgr[Bob], Alice)
    /\ sock' = [sock EXCEPT !.c = "closed"]
    /\ hnd' = [hnd EXCEPT !.pc = "done", !.unauthorized = Alice \notin DOMAIN mgr[Bob].connections]
    /\ UNCHANGED <<snd, net, disk, trk, tcall>>
    /\ UNCHANGED regVars

HandleAuthPass ==
    /\ hnd.pc = "auth"
    /\ handler_authorized(mgr[Bob], Alice)
    /\ hnd' = [hnd EXCEPT !.pc = "recv_meta", !.unauthorized = Alice \notin DOMAIN mgr[Bob].connections]
    /\ UNCHANGED <<snd, sock, net, disk, trk, tcall>>
    /\ UNCHANGED regVars

\* receive_file returns (None, None)
ReceiveFails == [hnd EXCEPT !.pc = "post", !.file_path = "none", !.file_size = 0]

after_recv_meta_any_name(filename) == "create"

\* `if not filename: return None, None` (file_handler.py:69-70)
after_recv_meta(filename) == IF filename = "" THEN "post" ELSE "create"

\* sock.recv(1024) and json.loads of the metadata
HandleRecvMeta ==
    /\ hnd.pc = "recv_meta"
    /\ sock.c = "open"
    /\ net.meta # NoMeta
    /\ net' = [net EXCEPT !.meta = NoMeta]
    /\ hnd' = [hnd EXCEPT !.meta_read = TRUE, !.filename = net.meta.filename,
                          !.size = net.meta.size,
                          !.pc = after_recv_meta(net.meta.filename)]
    /\ UNCHANGED <<snd, sock, disk, trk, tcall>>
    /\ UNCHANGED regVars

\* the sender closed without metadata (b'') or the recv raised
HandleRecvMetaFails ==
    /\ hnd.pc = "recv_meta"
    /\ net.meta = NoMeta
    /\ hnd' = ReceiveFails
    /\ UNCHANGED <<snd, sock, net, disk, trk, tcall>>
    /\ UNCHANGED regVars

\* on_metadata, first half: create_transfer (transfer_service.py:118-127)
HandleCreate ==
    /\ hnd.pc = "create"
    /\ trk' = [trk EXCEPT ![Bob] =
                 create_transfer(@, RxId, "receive", Alice, Bob, hnd.filename, hnd.size)]
    /\ hnd' = [hnd EXCEPT !.transfer_id = RxId, !.pc = "set_socket"]
    /\ UNCHANGED <<snd, sock, net, disk, tcall>>
    /\ UNCHANGED regVars

\* on_metadata, second half: set_socket (lines 128-129)
HandleSetSocket ==
    /\ hnd.pc = "set_socket"
    /\ trk' = [trk EXCEPT ![Bob] = set_socket(@, RxId, "c")]
    /\ hnd' = [hnd EXCEPT !.pc = "ack"]
    /\ UNCHANGED <<snd, sock, net, disk, tcall>>
    /\ UNCHANGED regVars

\* sock.send(b'OK') (file_handler.py:77)
HandleAck(dropped) ==
    /\ hnd.pc = "ack"
    /\ sock.c = "open"
    /\ dropped <=> sock.s # "open"
    /\ net' = IF dropped THEN net ELSE [net EXCEPT !.ack = OK]
    /\ hnd' = [hnd EXCEPT !.acked = TRUE, !.pc = "open"]
    /\ UNCHANGED <<snd, sock, disk, trk, tcall>>
    /\ UNCHANGED regVars

HandleAckError ==
    /\ hnd.pc = "ack"
    /\ sock.c # "open" \/ sock.s # "open"
    /\ hnd' = ReceiveFails
    /\ UNCHANGED <<snd, sock, net, disk, trk, tcall>>
    /\ UNCHANGED regVars

\* open(file_path, 'wb') creates or truncates the file
HandleOpen ==
    /\ hnd.pc = "open"
    /\ disk' = [exists |-> TRUE, bytes |-> <<>>]
    /\ hnd' = [hnd EXCEPT !.pc = "loop"]
    /\ UNCHANGED <<snd, sock, net, trk, tcall>>
    /\ UNCHANGED regVars

\* open raises (no permission, no space)
HandleOpenError ==
    /\ hnd.pc = "open"
    /\ hnd' = ReceiveFails
    /\ UNCHANGED <<snd, sock, net, disk, trk, tcall>>
    /\ UNCHANGED regVars

\* the literal 64 * 1024 of file_handler.py:87, in bytes of the model
MIN_PROGRESS_INTERVAL == 1

progress_interval(file_size) ==
    Min(PROGRESS_UPDATE_INTERVAL,
        Max(MIN_PROGRESS_INTERVAL, IF file_size > 0 THEN file_size \div 20
                                   ELSE MIN_PROGRESS_INTERVAL))

\* the receive loops still want bytes
ReceiveContinues == hnd.size = 0 \/ hnd.total < hnd.size

RecvLimit_whole_chunk == OPTIMAL_CHUNK_SIZE

\* the argument of sock.recv in the two receive loops (lines 94 and 115)
RecvLimit ==
    IF hnd.size = 0 THEN OPTIMAL_CHUNK_SIZE
    ELSE Min(OPTIMAL_CHUNK_SIZE, hnd.size - hnd.total)

\* update_receive_progress (transfer_service.py:144-174)
ReceiveProgress(t, total) == update_progress(t, RxId, total)

\* chunk = sock.recv(chunk_size); f.write(chunk); throttled progress callback
HandleRecvChunk(k) ==
    /\ hnd.pc = "loop"
    /\ ReceiveContinues
    /\ sock.c = "open"
    /\ k \in 1..Min(RecvLimit, Len(net.data))
    /\ net' = [net EXCEPT !.data = Drop(@, k)]
    /\ disk' = [disk EXCEPT !.bytes = @ \o Take(net.data, k)]
    /\ LET total_received == hnd.total + k
           report == total_received - hnd.last >= progress_interval(hnd.size)
       IN  /\ hnd' = [hnd EXCEPT !.total = total_received,
                                 !.last = IF report THEN total_received ELSE @]
           /\ trk' = IF report
                     THEN [trk EXCEPT ![Bob] = ReceiveProgress(@, total_received)]
                     ELSE trk
    /\ UNCHANGED <<snd, sock, tcall>>
    /\ UNCHANGED regVars

end_of_stream_no_data == net.data = <<>>

\* sock.recv returns b'': nothing is left to read and the sender has closed
end_of_stream == net.data = <<>> /\ sock.s = "closed"

\* the loop ends normally: all declared bytes are in, or, for an unknown
\* size, the sender has closed; final progress update and return
HandleRecvDone ==
    /\ hnd.pc = "loop"
    /\ \/ ~ReceiveContinues
       \/ hnd.size = 0 /\ sock.c = "open" /\ end_of_stream
    /\ hnd' = [hnd EXCEPT !.pc = "post", !.file_path = "path", !.file_size = hnd.total,
                          !.last = hnd.total]
    /\ trk' = IF hnd.total > hnd.last
              THEN [trk EXCEPT ![Bob] = ReceiveProgress(@, hnd.total)]
              ELSE trk
    /\ UNCHANGED <<snd, sock, net, disk, tcall>>
    /\ UNCHANGED regVars

\* a known size and the sender closed early (b''), or the recv raised
\* (timeout, reset, socket closed by cancel_transfer): (None, None)
HandleRecvFails ==
    /\ hnd.pc = "loop"
    /\ ReceiveContinues
    /\ \/ sock.c # "open"
       \/ net.data = <<>> /\ (hnd.size > 0 \/ sock.s = "open")
    /\ hnd' = ReceiveFails
    /\ UNCHANGED <<snd, sock, net, disk, trk, tcall>>
    /\ UNCHANGED regVars

\* get_progress returns the tracker's own dict, not a copy
\* (transfer_progress.py:88): its holder reads whatever the tracker has
\* written to it since.  The receiving process takes an entry out of the map
\* only in cancel_transfer, which writes 'cancelled' to it first (line 138)
referenced_status(t, id) ==
    IF id \in DOMAIN t.progress THEN t.progress[id].status ELSE "cancelled"

\* _handle_client after receive_file has returned: `progress_info =
\* progress_tracker.get_progress(transfer_id)` (transfer_service.py:188-192)
HandleQuery ==
    /\ hnd.pc = "post"
    /\ hnd' = [hnd EXCEPT !.pc = "check",
                          !.progress_info =
                              IF hnd.transfer_id # "none" /\ get_progress(trk[Bob], RxId) # None
                              THEN "entry" ELSE "none"]
    /\ UNCHANGED <<snd, sock, net, disk, trk, tcall>>
    /\ UNCHANGED regVars

\* the test of the status through that reference and the three outcomes
\* (transfer_service.py:193-254)
HandlePost ==
    /\ hnd.pc = "check"
    /\ LET tracked == hnd.transfer_id # "none"
           progress_info == get_progress(trk[Bob], RxId)
       IN  IF hnd.progress_info = "entry" /\ referenced_status(trk[Bob], RxId) = "cancelled"
           THEN /\ disk' = IF hnd.file_path # "none" /\ disk.exists
                           THEN [exists |-> FALSE, bytes |-> <<>>]
                           ELSE disk
                /\ hnd' = [hnd EXCEPT !.pc = "final", !.outcome = "cancelled"]
                /\ UNCHANGED trk
           ELSE IF hnd.file_path # "none" /\ hnd.file_size > 0
           THEN /\ trk' = [trk EXCEPT ![Bob] = complete_transfer(@, RxId)]
                /\ hnd' = [hnd EXCEPT !.pc = "final", !.outcome = "success"]
                /\ UNCHANGED disk
           ELSE IF hnd.file_path = "none"
           THEN /\ trk' = IF tracked /\ progress_info # None
                          THEN [trk EXCEPT ![Bob] = fail_transfer(@, RxId)]
                          ELSE trk
                /\ hnd' = [hnd EXCEPT !.pc = "final", !.outcome = "closed"]
                /\ UNCHANGED disk
           ELSE /\ trk' = IF tracked
                          THEN [trk EXCEPT ![Bob] = fail_transfer(@, RxId)]
                          ELSE trk
                /\ hnd' = [hnd EXCEPT !.pc = "final", !.outcome = "failed"]
                /\ UNCHANGED disk
    /\ UNCHANGED <<snd, sock, net, tcall>>
    /\ UNCHANGED regVars

\* finally: client_sock.close() (lines 269-273)
HandleFinal ==
    /\ hnd.pc = "final"
    /\ sock' = [sock EXCEPT !.c = "closed"]
    /\ hnd' = [hnd EXCEPT !.pc = "done"]
    /\ UNCHANGED <<snd, net, disk, trk, tcall>>
    /\ UNCHANGED regVars

---------------------------------------------------------------------------
\* alice's event loop can run another route only where the upload route
\* awaits: before the in-memory send and at each read of the chunked loop
\* (file_handler.py:351); bob's receiving handler is a thread of its own
CanServe(d) ==
    \/ d # Alice
    \/ snd.pc \in {"idle", "begin", "done"}
    \/ snd.kind = "chunked" /\ snd.pc = "loop"
    \/ snd.kind = "raw"

\* the transfer id a device hands out: the upload route's on alice, the
\* receiving handler's on bob
IssuedBy(d) == IF d = Alice THEN TxId ELSE RxId

\* POST /transfer/cancel on device d (routes/transfer.py:419-436)
Cancel(d, id) ==
    /\ CanServe(d)
    /\ LET r == cancel_transfer(trk[d], id)
           active == id \in DOMAIN trk[d].progress /\ trk[d].progress[id].status = "active"
       IN  /\ trk' = [trk EXCEPT ![d] = r.t]
           /\ sock' = IF r.closed # NoSocket THEN [sock EXCEPT ![r.closed] = "closed"] ELSE sock
           /\ tcall' = [device |-> d, id |-> id, result |-> r.result, was_active |-> active,
                        socket |-> IF active /\ id \in DOMAIN trk[d].sockets
                                   THEN trk[d].sockets[id] ELSE NoSocket,
                        reading |-> active /\ d = Bob /\ id = RxId /\ hnd.pc = "loop",
                        cancelled |-> IF active THEN tcall.cancelled \cup {<<d, id>>}
                                      ELSE tcall.cancelled]
    /\ UNCHANGED <<snd, hnd, net, disk>>
    /\ UNCHANGED regVars

\* the registry of d learns that its peer accepted
\* (POST /connections/connection-accepted on d)
XferConnected(d, peer_ip) ==
    /\ CanServe(d)
    /\ ~is_connected(mgr[d], peer_ip)
    /\ mgr' = [mgr EXCEPT ![d] = receive_connection_accepted(@, d, [peer_ip |-> peer_ip])]
    /\ UNCHANGED <<peers, pc, ret, call>>
    /\ UNCHANGED xferVars

\* the peer disconnects and tells d (POST /connections/disconnect-peer on d)
XferDisconnected(d, peer_ip) ==
    /\ CanServe(d)
    /\ is_connected(mgr[d], peer_ip)
    /\ mgr' = [mgr EXCEPT ![d] = disconnect_peer(@, d, [peer_ip |-> peer_ip])]
    /\ UNCHANGED <<peers, pc, ret, call>>
    /\ UNCHANGED xferVars

NextXfer ==
    \/ \E kind \in Clients, filename \in {"f", ""}, size \in 0..MaxBytes, srclen \in 0..MaxBytes :
          SendStart(kind, filename, size, srclen)
    \/ \E kind \in Kinds : SendForbidden(kind)
    \/ SendBegin
    \/ SendConnect
    \/ SendConnectFail
    \/ SendStore
    \/ \E dropped \in BOOLEAN : SendMeta(dropped)
    \/ SendMetaError
    \/ \E k \in 1..2 : SendRecvAck(k)
    \/ SendRecvAckEOF
    \/ SendRecvAckError
    \/ \E dropped \in BOOLEAN : SendChunk(dropped)
    \/ SendChunkError
    \/ SendLoopEnd
    \/ SendClose
    \/ SendRouteEnd
    \/ HandleAuthReject
    \/ HandleAuthPass
    \/ HandleRecvMeta
    \/ HandleRecvMetaFails
    \/ HandleCreate
    \/ HandleSetSocket
    \/ \E dropped \in BOOLEAN : HandleAck(dropped)
    \/ HandleAckError
    \/ HandleOpen
    \/ HandleOpenError
    \/ \E k \in 1..OPTIMAL_CHUNK_SIZE : HandleRecvChunk(k)
    \/ HandleRecvDone
    \/ HandleRecvFails
    \/ HandleQuery
    \/ HandlePost
    \/ HandleFinal
    \/ \E d \in Devices : Cancel(d, IssuedBy(d))
    \/ \E d \in Devices : XferConnected(d, CHOOSE p \in Devices : p # d)
    \/ \E d \in Devices : XferDisconnected(d, CHOOSE p \in Devices : p # d)

SpecXfer == Init /\ [][NextXfer]_vars

(***************************************************************************)
(* Claims about the transfer protocol, checked under SpecXfer.             *)
(***************************************************************************)

\* C1: with a registry configured, a handler that finds the sender's address
\* not connected when it starts closes the socket and has not read the
\* metadata, sent 'OK', created a progress-tracker entry or written any byte
\* to disk.
C1_UnauthorizedTurnedAway ==
    hnd.unauthorized =>
        /\ sock.c = "closed"
        /\ hnd.pc = "done"
        /\ ~hnd.meta_read
        /\ ~hnd.acked
        /\ hnd.transfer_id = "none"
        /\ RxId \notin DOMAIN trk[Bob].progress
        /\ ~disk.exists
        /\ disk.bytes = <<>>

\* an unconnected sender whose metadata frame is already on the wire has been
\* turned away
C1_Witness ==
    /\ hnd.unauthorized
    /\ sock.c = "closed"
    /\ snd.meta_sent

\* C2: receive_file sends 'OK' only after the metadata frame has been received
\* and parsed to a non-empty filename, and writes no payload byte to the
\* destination file before 'OK' has been sent.
C2_AckAfterMetadataBeforePayload ==
    /\ hnd.acked => (hnd.meta_read /\ hnd.filename # "")
    /\ disk.bytes # <<>> => hnd.acked
    /\ hnd.total > 0 => hnd.acked

\* payload has been written after the acknowledgment of a named file
C2_Witness ==
    /\ hnd.acked
    /\ hnd.filename = "f"
    /\ disk.bytes # <<>>
    /\ hnd.total = Len(disk.bytes)

\* C3: each of the three send routines sends the metadata frame first, sends no
\* payload byte until it has received exactly the two bytes 'OK', and on any
\* other reply returns false with zero payload bytes sent.
C3_MetadataAckPayload ==
    snd.kind \in Kinds =>
        /\ snd.ack.got => snd.meta_sent
        /\ snd.sent > 0 => (snd.meta_sent /\ snd.ack.got /\ snd.ack.bytes = OK)
        /\ (snd.ack.got /\ snd.ack.bytes # OK) =>
               (snd.sent = 0 /\ snd.ret = "false" /\ snd.pc \in {"close", "route", "done"})

\* a routine has returned false on a one-byte reply without sending payload
C3_Witness ==
    /\ snd.kind \in Kinds
    /\ snd.ack.got
    /\ snd.ack.bytes = <<"O">>
    /\ snd.ret = "false"
    /\ snd.sent = 0

\* C10: cancel_transfer on an entry whose status is active returns true, closes
\* the socket attached to the transfer, and removes the entry, so that no
\* later get_progress or get_transfers_by_ip returns it.
C10_CancelActive ==
    /\ tcall.was_active => tcall.result
    /\ (tcall.was_active /\ tcall.socket # NoSocket) => sock[tcall.socket] = "closed"
    /\ \A e \in tcall.cancelled :
          /\ get_progress(trk[e[1]], e[2]) = None
          /\ \A ip \in IPs, direction \in {NoDirection, "send", "receive"} :
                e[2] \notin get_transfers_by_ip(trk[e[1]], ip, direction)

\* bob cancelled the receive while its socket was attached, and the handler
\* has since run to its end
C10_Witness ==
    /\ tcall.was_active
    /\ tcall.result
    /\ tcall.device = Bob
    /\ tcall.socket = "c"
    /\ sock.c = "closed"
    /\ <<Bob, RxId>> \in tcall.cancelled
    /\ hnd.pc = "done"

\* C11: when an active inbound transfer is cancelled while the receiver is
\* still reading payload, the receive handler has deleted the partially
\* written file by the time it returns.
C11_CancelDeletesPartialFile ==
    (tcall.reading /\ hnd.pc = "done") => ~disk.exists

\* the payload the sender has to deliver: the declared size, or the whole
\* source when the size is declared unknown
WholePayload == IF snd.size > 0 THEN snd.size ELSE snd.src

Completed(d, id) ==
    /\ id \in DOMAIN trk[d].progress
    /\ trk[d].progress[id].status = "completed"

\* C12: when the sender's side of the connection has been closed before the
\* whole payload was sent, for a known or an unknown (0) declared size, the
\* receiver does not report success: receive_file returns no file path and
\* the tracker entry is not marked completed.
C12_EarlyCloseIsNotSuccess ==
    (snd.kind \in Kinds /\ snd.pc \in {"route", "done"} /\ snd.sent < WholePayload) =>
        (hnd.file_path = "none" /\ ~Completed(Bob, RxId))

\* C13: a transfer of declared size S > 0 that the receiver reports as
\* successful has read exactly S payload bytes and written exactly those S
\* bytes, in order: the file equals the first S bytes the sender sent.
C13_ReceivedFileEqualsSent ==
    (hnd.size > 0 /\ hnd.outcome = "success") =>
        /\ hnd.total = hnd.size
        /\ hnd.file_size = hnd.size
        /\ disk.exists
        /\ disk.bytes = Take(Source(snd.src), hnd.size)

\* a file of two or more bytes, received in more than one read, is reported
\* as successful
C13_Witness ==
    /\ hnd.size >= 2
    /\ hnd.outcome = "success"
    /\ snd.kind \in {"file", "stream"}
    /\ Len(disk.bytes) = hnd.size

\* C14: for a declared size of 0, when the sender has sent N payload bytes and
\* closed the connection, a receive_file that returns a path has written
\* exactly those N bytes to the file and returns (path, N).  The file is as
\* receive_file left it until the handler deletes the file of a transfer it
\* finds cancelled (transfer_service.py:193-201).
C14_UnknownSizeReceivesAll ==
    (hnd.size = 0 /\ hnd.file_path = "path" /\ hnd.outcome # "cancelled") =>
        /\ sock.s = "closed"
        /\ hnd.file_size = snd.sent
        /\ disk.exists
        /\ disk.bytes = Take(Source(snd.src), snd.sent)

\* an upload of undeclared size has been received whole in several reads
C14_Witness ==
    /\ hnd.size = 0
    /\ hnd.file_path = "path"
    /\ snd.kind = "chunked"
    /\ snd.ret = "true"
    /\ hnd.file_size >= 2
    /\ Len(disk.bytes) = snd.src

\* C15: a receive that fails after the acknowledgment was sent (the connection
\* closes or errors before all declared bytes have arrived) leaves no file for
\* the transfer in the destination folder.
C15_FailedReceiveLeavesNoFile ==
    (/\ snd.kind \in Kinds
     /\ hnd.acked
     /\ hnd.size > 0
     /\ hnd.total < hnd.size
     /\ hnd.file_path = "none"
     /\ hnd.pc = "done"
     /\ <<Bob, RxId>> \notin tcall.cancelled) =>
        ~disk.exists

---------------------------------------------------------------------------
\* DiscoveryService on bob: the listener loop, the expiry sweep and the clock.
\* disc.peers is the OrderedDict self.peers, in insertion order.

\* the last tick of the wall clock
MaxTime == 4

\* PEER_TIMEOUT (15 s) of discovery_service.py:30, in ticks of the clock
PEER_TIMEOUT == 2

\* a message without the key "device_name"
NoName == ""

Names == {"X", "Unknown", NoName}

IndexOfIp(table, ip) ==
    IF \E i \in 1..Len(table) : table[i].ip = ip
    THEN CHOOSE i \in 1..Len(table) : table[i].ip = ip
    ELSE 0

RemoveAt(table, i) == SubSeq(table, 1, i - 1) \o SubSeq(table, i + 1, Len(table))

\* peer_info.get("device_name", "Unknown")
name_or_unknown(device_name) == IF device_name = NoName THEN "Unknown" ELSE device_name

\* `existing_info.get("device_name") == device_name` (line 174): an entry
\* stored without the key gives None, which equals no name
same_device(existing_info, device_name) ==
    existing_info.device_name # NoName /\ existing_info.device_name = device_name

\* DiscoveryService._update_peer (lines 165-187)
update_peer(table, ip, peer_info, now) ==
    LET device_name == name_or_unknown(peer_info.device_name)
        old == {i \in 1..Len(table) :
                   same_device(table[i], device_name) /\ table[i].ip # ip}
        \* the loop breaks at the first match
        kept == IF old = {} THEN table
                ELSE RemoveAt(table, CHOOSE i \in old : \A j \in old : i <= j)
        at == IndexOfIp(kept, ip)
        entry == [ip |-> ip, device_name |-> peer_info.device_name, last_seen |-> now]
    IN  IF at = 0 THEN Append(kept, entry) ELSE [kept EXCEPT ![at] = entry]

\* DiscoveryService.get_peers (lines 241-251)
get_peers(table) ==
    [i \in 1..Len(table) |->
        [ip |-> table[i].ip, device_name |-> name_or_unknown(table[i].device_name),
         last_seen |-> table[i].last_seen]]

\* one datagram is received by the listener loop (lines 133-152): messages
\* carrying the local IP or no IP are skipped
listened(dsc, ip, device_name) ==
    IF ip = Bob \/ ip = NoIP
    THEN dsc
    ELSE [dsc EXCEPT !.peers = update_peer(@, ip, [ip |-> ip, device_name |-> device_name],
                                           dsc.now)]

Listen(ip, device_name) ==
    /\ disc' = listened(disc, ip, device_name)
    /\ UNCHANGED <<mgr, peers, pc, ret, call>>
    /\ UNCHANGED <<snd, hnd, sock, net, disk, trk, tcall>>

expired_at_timeout(elapsed) == elapsed >= PEER_TIMEOUT

\* `if elapsed > self.PEER_TIMEOUT` (line 207)
expired(elapsed) == elapsed > PEER_TIMEOUT

\* one iteration of DiscoveryService._cleanup_loop (lines 194-215); last_seen
\* is always the isoformat string written by _update_peer, so it parses
swept(dsc) ==
    LET current_time == dsc.now
        kept(peer_info) == ~expired(current_time - peer_info.last_seen)
        expired_peers == {dsc.peers[i].ip : i \in {j \in 1..Len(dsc.peers) :
                                                      ~kept(dsc.peers[j])}}
    IN  [dsc EXCEPT !.peers = SelectSeq(@, kept),
                    !.swept = ~@,
                    !.expired_peers = expired_peers]

Sweep ==
    /\ disc' = swept(disc)
    /\ UNCHANGED <<mgr, peers, pc, ret, call>>
    /\ UNCHANGED <<snd, hnd, sock, net, disk, trk, tcall>>

\* the wall clock advances
Tick ==
    /\ disc.now < MaxTime
    /\ disc' = [disc EXCEPT !.now = @ + 1]
    /\ UNCHANGED <<mgr, peers, pc, ret, call>>
    /\ UNCHANGED <<snd, hnd, sock, net, disk, trk, tcall>>

NextDisc ==
    \/ \E ip \in IPs \cup {NoIP}, device_name \in Names : Listen(ip, device_name)
    \/ Sweep
    \/ Tick

SpecDisc == Init /\ [][NextDisc]_vars

\* the device names that get_peers shows for more than one entry
ShownTwice(table) ==
    {get_peers(table)[i].device_name : i \in
        {j \in 1..Len(table) : \E k \in 1..Len(table) :
            k # j /\ get_peers(table)[k].device_name = get_peers(table)[j].device_name}}

\* C16: after any sequence of processed broadcasts and expiry sweeps the peer
\* table holds at most one entry per device_name.
C16_OneEntryPerDeviceName == ShownTwice(disc.peers) = {}

\* the entries of the table that are more than PEER_TIMEOUT old
Stale(table, now) == {i \in 1..Len(table) : now - table[i].last_seen > PEER_TIMEOUT}

\* C17: each expiry sweep removes exactly the peers whose last_seen is more
\* than PEER_TIMEOUT old: such a peer is absent from get_peers() after the
\* sweep, and a peer seen within PEER_TIMEOUT is kept, unchanged and in order.
C17_SweepRemovesExactlyStale ==
    [][disc'.swept # disc.swept =>
          LET stale == Stale(disc.peers, disc.now)
              fresh == {i \in 1..Len(disc.peers) : i \notin stale}
          IN  /\ \A i \in stale : \A j \in 1..Len(disc'.peers) :
                     get_peers(disc'.peers)[j].ip # disc.peers[i].ip
              /\ \A i \in fresh : \E j \in 1..Len(disc'.peers) :
                     disc'.peers[j] = disc.peers[i]
              /\ Len(disc'.peers) = Cardinality(fresh)
              /\ \A i, k \in fresh : i < k =>
                     \E j, l \in 1..Len(disc'.peers) :
                         j < l /\ disc'.peers[j] = disc.peers[i] /\ disc'.peers[l] = disc.peers[k]]_vars

\* the last sweep removed a stale peer and kept one that is exactly
\* PEER_TIMEOUT old
C17_Witness ==
    /\ disc.expired_peers # {}
    /\ \E i \in 1..Len(disc.peers) : disc.now - disc.peers[i].last_seen = PEER_TIMEOUT

\* C18: with a registry configured, a send route called for a target that is
\* not connected at the time of the call fails with 403, opens no TCP
\* connection to the target and creates no tracker entry.
C18_SendRefusedWhenNotConnected ==
    (snd.kind \in Kinds /\ ~snd.allowed) =>
        /\ snd.ret = "403"
        /\ snd.pc = "done"
        /\ sock.s = "none"
        /\ hnd.pc = "none"
        /\ ~snd.meta_sent
        /\ TxId \notin DOMAIN trk[Alice].progress
        /\ TxId \notin DOMAIN trk[Alice].sockets

\* an upload is refused because alice's registry does not list bob as
\* connected, although bob's registry lists alice
C18_Witness ==
    /\ snd.kind \in {"stream", "chunked"}
    /\ snd.ret = "403"
    /\ ~is_connected(mgr[Alice], Bob)
    /\ is_connected(mgr[Bob], Alice)

\* C19: the connection-request route creates a pending request and starts
\* sending the request RPC only for a target that is in the discovery peer
\* table and not already connected; a call that fails with 404 leaves the
\* registry unchanged, and nothing else creates a request.
C19_RequestOnlyToDiscoveredPeer ==
    [][\A d \in Devices :
          /\ (pc[d].op = "idle" /\ pc'[d].op = "request") =>
                 /\ pc'[d].peer \in peers[d]
                 /\ ~(/\ pc'[d].peer \in DOMAIN mgr[d].connections
                      /\ mgr[d].connections[pc'[d].peer].status = "connected")
                 /\ pc'[d].rid \notin DOMAIN mgr[d].pending_requests
                 /\ pc'[d].rid \in DOMAIN mgr'[d].pending_requests
                 /\ mgr'[d].pending_requests[pc'[d].rid].to_ip = pc'[d].peer
                 /\ mgr'[d].pending_requests[pc'[d].rid].status = "pending"
          /\ mgr'[d].request_counter # mgr[d].request_counter =>
                 (pc[d].op = "idle" /\ pc'[d].op = "request")
          /\ (ret' # ret /\ ret'.status = "404") => mgr' = mgr]_vars

\* one device's request to a discovered peer is in flight after a request
\* to an undiscovered address was answered 404
C19_Witness ==
    /\ ret.status = "404"
    /\ \E d \in Devices :
          /\ pc[d].op = "request"
          /\ pc[d].peer \in peers[d]
          /\ pc[d].rid \in DOMAIN mgr[d].pending_requests

\* C20: the inbound-request receiver adds or changes an entry of the
\* registry's request map only if the payload's to_ip is the device's local
\* IP, and then only the entry of the payload's request_id; otherwise the
\* registry is left unchanged and the request is reported as ignored.
C20_IncomingStoredOnlyIfForUs ==
    [][call'.op = "incoming_request" =>
          IF call'.ip = Bob
          THEN /\ call'.result
               /\ call'.request_id \in DOMAIN mgr'[Bob].pending_requests
               /\ mgr'[Bob].pending_requests[call'.request_id].to_ip = Bob
               /\ mgr'[Bob].pending_requests[call'.request_id].status = "pending"
               /\ \A r \in DOMAIN mgr[Bob].pending_requests :
                     r # call'.request_id =>
                        /\ r \in DOMAIN mgr'[Bob].pending_requests
                        /\ mgr'[Bob].pending_requests[r] = mgr[Bob].pending_requests[r]
               /\ DOMAIN mgr'[Bob].pending_requests =
                     DOMAIN mgr[Bob].pending_requests \cup {call'.request_id}
               /\ mgr'[Bob].connections = mgr[Bob].connections
          ELSE /\ ~call'.result
               /\ mgr' = mgr]_vars

\* a request addressed to another device was ignored after one addressed to
\* bob had been stored
C20_Witness ==
    /\ call.op = "incoming_request"
    /\ call.ip # Bob
    /\ ~call.result
    /\ \E r \in IncomingIds : r \in DOMAIN mgr[Bob].pending_requests

(***************************************************************************)
(* Claims about disconnection and the retry loops                          *)
(***************************************************************************)

\* C21: whenever device A's disconnect from peer B has completed with its
\* disconnect notification delivered to B, is_connected(B) is false on A's
\* registry and is_connected(A) is false on B's registry.
C21_DisconnectConverges ==
    [][\A a \in Devices :
          (pc[a].op = "disconnect" /\ pc'[a].op = "idle" /\ ret'.delivered)
          => /\ ~is_connected(mgr'[a], pc[a].peer)
             /\ ~is_connected(mgr'[pc[a].peer], a)]_vars

\* a disconnect of two devices that tracked each other has been delivered:
\* the accepted request is still on record, neither side is connected
C21_Witness ==
    /\ ret.status = "disconnected" /\ ret.delivered
    /\ \E a \in Devices, b \in Devices :
          /\ a # b
          /\ \E r \in DOMAIN mgr[b].pending_requests :
                /\ mgr[b].pending_requests[r].from_ip = a
                /\ mgr[b].pending_requests[r].to_ip = b
                /\ mgr[b].pending_requests[r].status = "accepted"
          /\ ~is_connected(mgr[a], b)
          /\ ~is_connected(mgr[b], a)

(***************************************************************************)
(* The two retry loops of routes/connections.py with the outcome of every  *)
(* RPC attempt on record (specification SpecRetry): the delivery loop of   *)
(* request_connection (lines 121-170) and the notification loop of         *)
(* accept_connection (lines 291-316).  The steps are those of SpecNet; the *)
(* variable call keeps what requests.post did in the attempt that ended    *)
(* last.                                                                   *)
(***************************************************************************)
\* what requests.post can do: answer 200 ("200"), answer another status
\* ("status"), raise ConnectionError ("refused"), raise Timeout ("timeout"),
\* raise another RequestException ("error");
\* attempt number pc[d].attempt + 1 of d's loop has ended with this outcome
Attempted(d, outcome) ==
    call' = [NoCall EXCEPT !.op = pc[d].op, !.ip = d,
                           !.attempt = pc[d].attempt + 1, !.outcome = outcome]

\* The last disjunct: `except Exception` (line 312) catches
\* requests.exceptions.Timeout and every other error; only after a timeout
\* can the requester have handled the RPC.
NextRetry ==
    \/ \E d \in Devices, p \in Devices : PeerSeen(d, p)
    \/ \E d \in Devices, p \in IPs : RequestBegin(d, p, MaxRequests)
    \/ \E d \in Devices : RequestDelivered(d) /\ Attempted(d, "200")
    \/ \E d \in Devices : RequestBadStatus(d) /\ Attempted(d, "status")
    \/ \E d \in Devices : RequestConnectionError(d) /\ Attempted(d, "refused")
    \/ \E d \in Devices, processed \in BOOLEAN : RequestTimeout(d, processed) /\ Attempted(d, "timeout")
    \/ \E d \in Devices : RequestOtherError(d) /\ Attempted(d, "error")
    \/ \E d \in Devices, r \in RequestIds : AcceptBegin(d, r)
    \/ \E d \in Devices : AcceptNotifyDelivered(d) /\ Attempted(d, "200")
    \/ \E d \in Devices : AcceptNotifyBadStatus(d) /\ Attempted(d, "status")
    \/ \E d \in Devices : AcceptNotifyConnectionError(d) /\ Attempted(d, "refused")
    \/ \E d \in Devices, processed \in BOOLEAN, outcome \in {"timeout", "error"} :
          /\ processed => outcome = "timeout"
          /\ AcceptNotifyOtherError(d, processed)
          /\ Attempted(d, outcome)

SpecRetry == Init /\ [][NextRetry]_vars

\* C22 (as claimed): the connection-request delivery makes at most 3 attempts,
\* stops at the first attempt answered with HTTP 200, makes a further attempt
\* only after a connection-refused or timeout error, and makes no further
\* attempt after any other request error.
C22_RequestRetryPolicy ==
    [][\A d \in Devices :
          (pc[d].op = "request" /\ pc'[d] # pc[d])
          => /\ call'.attempt <= 3
             /\ call'.outcome = "200" => pc'[d].op = "idle"
             /\ pc'[d].op = "request" => call'.outcome \in {"refused", "timeout"}
             /\ call'.outcome = "error" => pc'[d].op = "idle"]_vars

\* C23 (as claimed): the acceptance notification makes at most 3 attempts, makes
\* a further attempt after a connection-refused error and after a timeout
\* error alike, and makes no further attempt after any other request error.
C23_AcceptRetryPolicy ==
    [][\A d \in Devices :
          (pc[d].op = "accept" /\ pc'[d] # pc[d])
          => /\ call'.attempt <= 3
             /\ (call'.outcome \in {"refused", "timeout"} /\ call'.attempt < 3)
                    => pc'[d].op = "accept"
             /\ call'.outcome = "error" => pc'[d].op = "idle"]_vars

(***************************************************************************)
(* Claims about the tracker, the discovery loops and the send routines     *)
(***************************************************************************)

\* C24: cancel_transfer(id) returns false and leaves the tracker unchanged (no
\* socket closed, no entry removed, no status changed) when id is unknown or
\* the entry's status is completed or failed.  The cancel route is the only
\* step that moves neither the send routine nor the handler nor a registry.
C24_CancelFailureLeavesTracker ==
    [][(/\ snd' = snd /\ hnd' = hnd /\ mgr' = mgr
        /\ LET t == trk[tcall'.device]
           IN  \/ tcall'.id \notin DOMAIN t.progress
               \/ t.progress[tcall'.id].status \in {"completed", "failed"})
       => (tcall'.result = FALSE /\ trk' = trk /\ sock' = sock)]_vars

\* cancel_transfer has returned false for a transfer that is on record as
\* completed, and the entry is still there
C24_Witness ==
    /\ tcall.device = Bob
    /\ tcall.id = RxId
    /\ tcall.result = FALSE
    /\ ~tcall.was_active
    /\ RxId \in DOMAIN trk[Bob].progress
    /\ trk[Bob].progress[RxId].status = "completed"
    /\ hnd.pc = "done"

(***************************************************************************)
(* The life cycle of DiscoveryService (specification SpecLife): start(),   *)
(* stop() and the steps of the threads that run _broadcast_loop,           *)
(* _listener_loop and _cleanup_loop.  Threads of one loop at the same      *)
(* position are interchangeable, so they are counted.  The wall clock      *)
(* stands still here; expiry is the subject of SpecDisc.                   *)
(***************************************************************************)
\* calls of start() that spawn threads
MaxStarts == 2

\* the threads of loop k that have reached its `while self.running`
Looping(dsc, k) == dsc.threads[k]["check"] + dsc.threads[k]["body"]

\* all threads of loop k that have not returned
Alive(dsc, k) == dsc.threads[k]["init"] + Looping(dsc, k)

\* one thread of loop k goes from one position to another, or returns
moved(dsc, k, from, to) ==
    [dsc EXCEPT !.threads[k] = [@ EXCEPT ![from] = @ - 1, ![to] = @ + 1]]

ended(dsc, k, from) == [dsc EXCEPT !.threads[k][from] = @ - 1]

\* start (lines 46-75): a no-op when running, else the flag and three threads;
\* the cleanup thread begins at its while test
discovery_start(dsc) ==
    IF dsc.running
    THEN dsc
    ELSE [dsc EXCEPT !.running = TRUE,
                     !.starts = @ + 1,
                     !.threads = [k \in LoopKinds |->
                         [@[k] EXCEPT ![IF k = "cleanup" THEN "check" ELSE "init"] = @ + 1]]]

\* stop (lines 77-79)
discovery_stop(dsc) == [dsc EXCEPT !.running = FALSE]

loop_goes_on_always(dsc) == TRUE

\* `while self.running:` (lines 91, 132, 194)
loop_goes_on(dsc) == dsc.running

OnlyDisc ==
    /\ UNCHANGED <<mgr, peers, pc, ret, call>>
    /\ UNCHANGED <<snd, hnd, sock, net, disk, trk, tcall>>

Start ==
    /\ disc.running \/ disc.starts < MaxStarts
    /\ disc' = discovery_start(disc)
    /\ OnlyDisc

Stop ==
    /\ disc' = discovery_stop(disc)
    /\ OnlyDisc

\* lines 88-89: create_broadcast_socket; an error goes to `except` and to
\* `finally` with sock = None
BroadcastInit(ok) ==
    /\ disc.threads["broadcast"]["init"] > 0
    /\ disc' = IF ok
               THEN [moved(disc, "broadcast", "init", "check") EXCEPT !.sockets.broadcast = @ + 1]
               ELSE ended(disc, "broadcast", "init")
    /\ OnlyDisc

\* line 91, and lines 119-121 when the flag is down
BroadcastCheck ==
    /\ disc.threads["broadcast"]["check"] > 0
    /\ disc' = IF loop_goes_on(disc)
               THEN moved(disc, "broadcast", "check", "body")
               ELSE [ended(disc, "broadcast", "check") EXCEPT !.sockets.broadcast = @ - 1]
    /\ OnlyDisc

\* lines 92-116: one broadcast and the sleep
BroadcastBody ==
    /\ disc.threads["broadcast"]["body"] > 0
    /\ disc' = moved(disc, "broadcast", "body", "check")
    /\ OnlyDisc

\* lines 125-126: create_listener_socket binds the port; when the bind is
\* refused the thread dies
ListenerInit(ok) ==
    /\ disc.threads["listener"]["init"] > 0
    /\ disc' = IF ok
               THEN [moved(disc, "listener", "init", "check") EXCEPT !.sockets.listener = @ + 1]
               ELSE ended(disc, "listener", "init")
    /\ OnlyDisc

\* line 132, and lines 162-163 when the flag is down
ListenerCheck ==
    /\ disc.threads["listener"]["check"] > 0
    /\ disc' = IF loop_goes_on(disc)
               THEN moved(disc, "listener", "check", "body")
               ELSE [ended(disc, "listener", "check") EXCEPT !.sockets.listener = @ - 1]
    /\ OnlyDisc

\* lines 134-151: recvfrom returns a datagram
ListenerRecv(ip, device_name) ==
    /\ disc.threads["listener"]["body"] > 0
    /\ disc' = moved(listened(disc, ip, device_name), "listener", "body", "check")
    /\ OnlyDisc

\* lines 153-155: recvfrom times out after one second
ListenerTimeout ==
    /\ disc.threads["listener"]["body"] > 0
    /\ disc' = moved(disc, "listener", "body", "check")
    /\ OnlyDisc

\* line 194: the cleanup thread has no socket
CleanupCheck ==
    /\ disc.threads["cleanup"]["check"] > 0
    /\ disc' = IF loop_goes_on(disc)
               THEN moved(disc, "cleanup", "check", "body")
               ELSE ended(disc, "cleanup", "check")
    /\ OnlyDisc

\* lines 195-218: the sleep and one sweep
CleanupBody ==
    /\ disc.threads["cleanup"]["body"] > 0
    /\ disc' = moved(swept(disc), "cleanup", "body", "check")
    /\ OnlyDisc

NextLife ==
    \/ Start
    \/ Stop
    \/ \E ok \in BOOLEAN : BroadcastInit(ok)
    \/ BroadcastCheck
    \/ BroadcastBody
    \/ \E ok \in BOOLEAN : ListenerInit(ok)
    \/ ListenerCheck
    \/ \E ip \in {Alice, NoIP} : ListenerRecv(ip, "X")
    \/ ListenerTimeout
    \/ CleanupCheck
    \/ CleanupBody

SpecLife == Init /\ [][NextLife]_vars

\* every thread is scheduled again and again: sleeps and the receive timeout
\* are finite
SpecLifeFair ==
    /\ SpecLife
    /\ WF_vars(\E ok \in BOOLEAN : BroadcastInit(ok))
    /\ WF_vars(BroadcastCheck)
    /\ WF_vars(BroadcastBody)
    /\ WF_vars(\E ok \in BOOLEAN : ListenerInit(ok))
    /\ WF_vars(ListenerCheck)
    /\ WF_vars(ListenerTimeout)
    /\ WF_vars(CleanupCheck)
    /\ WF_vars(CleanupBody)

\* C25 (as claimed): after any sequence of start() and stop() calls, at most
\* one broadcast loop, at most one listener loop and at most one expiry-sweep
\* loop are running at any time.
C25_AtMostOneLoopOfEachKind ==
    \A k \in LoopKinds : Looping(disc, k) <= 1

\* C26: after stop() is called on a running DiscoveryService and start() is
\* not called again, each of the three loops eventually observes the cleared
\* running flag and exits, and the broadcast and listener sockets are closed.
C26_LoopsExitAfterStop ==
    <>[](~disc.running)
    => <>[](/\ \A k \in LoopKinds : Alive(disc, k) = 0
            /\ disc.sockets.broadcast = 0
            /\ disc.sockets.listener = 0)

\* the service was started, its listener processed a broadcast, stop() was
\* called, and every loop has returned with its socket closed
C26_Witness ==
    /\ disc.starts > 0
    /\ ~disc.running
    /\ Len(disc.peers) > 0
    /\ disc.swept
    /\ \A k \in LoopKinds : Alive(disc, k) = 0
    /\ disc.sockets.broadcast = 0
    /\ disc.sockets.listener = 0

\* C27: on every exit path of the three outbound send routines (success,
\* missing or wrong acknowledgment, connect timeout, connection refused, any
\* socket error while sending, including a socket closed by cancellation) the
\* routine returns a boolean without raising, false on every failure, and the
\* socket it opened is closed.
C27_SendReturnsAndCloses ==
    (/\ snd.kind \in Kinds
     /\ snd.allowed
     /\ ~(snd.kind = "stream" /\ snd.src = 0)
     /\ snd.pc \in {"route", "done"})
    => /\ snd.ret \in {"true", "false"}
       /\ sock.s # "open"
       /\ (snd.error # "none" \/ (snd.ack.got /\ snd.ack.bytes # OK)) => snd.ret = "false"

\* the upload was cancelled on alice while her routine was sending: sendall
\* raised on the closed socket, the routine returned false
C27_Witness ==
    /\ snd.kind = "chunked"
    /\ snd.pc = "done"
    /\ <<Alice, TxId>> \in tcall.cancelled
    /\ snd.error = "socket"
    /\ snd.sent > 0
    /\ snd.ret = "false"
    /\ sock.s = "closed"

(***************************************************************************)
(* The upload route POST /transfer/send up to its choice of a send         *)
(* strategy (specification SpecUpload; routes/transfer.py:152-258).        *)
(***************************************************************************)
\* LARGE_FILE_THRESHOLD (100 MB, file_handler.py:17), scaled like the chunk
\* sizes: sizes below, at and above it fit into 0..MaxBytes
LARGE_FILE_THRESHOLD == 2

\* lines 166-177: file.size when it is set and not 0, else the content-length
\* header when there is one, else 0
declared_size(size, has_length, length) ==
    IF size # 0 THEN size
    ELSE IF has_length THEN length
    ELSE 0

is_large_from_threshold(file_size) == file_size >= LARGE_FILE_THRESHOLD

\* `if file_size > LARGE_FILE_THRESHOLD` (line 202)
is_large(file_size) == file_size > LARGE_FILE_THRESHOLD

\* lines 202-258: the routine that will send the upload
upload_strategy(file_size) ==
    IF is_large(file_size) THEN "chunked"
    ELSE IF file_size = 0 THEN "chunked"
    ELSE "stream"

\* the route is called: target_ip must be given (line 152) and connected
\* (lines 155-161); then the size is determined, the tracker entry created
\* and the strategy chosen
UploadRoute(target_ip, filename, size, has_length, length, srclen) ==
    /\ snd.pc = "idle"
    /\ LET file_size == declared_size(size, has_length, length)
           name == IF filename = "" THEN "unnamed_file" ELSE filename
           upload == [routed |-> TRUE, size |-> size, has_length |-> has_length,
                      length |-> length]
       IN  IF target_ip = ""
           THEN /\ snd' = [IdleSender EXCEPT !.pc = "done", !.ret = "400", !.upload = upload]
                /\ UNCHANGED trk
           ELSE IF ~send_allowed(mgr[Alice], target_ip)
           THEN /\ snd' = [IdleSender EXCEPT !.pc = "done", !.ret = "403", !.upload = upload]
                /\ UNCHANGED trk
           ELSE /\ snd' = [IdleSender EXCEPT
                             !.kind = upload_strategy(file_size),
                             !.pc = IF upload_strategy(file_size) = "stream"
                                    THEN "begin" ELSE "connect",
                             !.filename = name, !.size = file_size, !.src = srclen,
                             !.allowed = ConnectedNow(Alice, target_ip),
                             !.upload = upload]
                /\ trk' = [trk EXCEPT ![Alice] =
                             create_transfer(@, TxId, "send", Alice, target_ip, name, file_size)]
    /\ UNCHANGED <<hnd, sock, net, disk, tcall>>
    /\ UNCHANGED regVars

NextUpload ==
    \/ XferConnected(Alice, Bob)
    \/ XferDisconnected(Alice, Bob)
    \/ \E target_ip \in {Bob, ""}, filename \in {"f", ""}, size \in 0..MaxBytes,
          has_length \in BOOLEAN, length \in 0..MaxBytes, srclen \in 0..MaxBytes :
          UploadRoute(target_ip, filename, size, has_length, length, srclen)

SpecUpload == Init /\ [][NextUpload]_vars

\* C28: the upload send route selects the chunked-streaming strategy exactly
\* when the known size is above the threshold or the size is unknown (0), and
\* the in-memory strategy exactly when the known size is between 1 byte and
\* the threshold inclusive.
C28_StrategyBySize ==
    (snd.upload.routed /\ snd.ret = "none")
    => /\ snd.kind = "chunked" <=> (snd.size > LARGE_FILE_THRESHOLD \/ snd.size = 0)
       /\ snd.kind = "stream" <=> (snd.size >= 1 /\ snd.size <= LARGE_FILE_THRESHOLD)

\* an upload whose size, taken from the content-length header, is exactly the
\* threshold goes to the in-memory routine
C28_Witness ==
    /\ snd.upload.routed
    /\ snd.upload.size = 0
    /\ snd.upload.has_length
    /\ snd.size = LARGE_FILE_THRESHOLD
    /\ snd.kind = "stream"
    /\ snd.pc = "begin"
    /\ TxId \in DOMAIN trk[Alice].progress

(***************************************************************************)
(* Claims about the life of a request and the origin of a Connection       *)
(***************************************************************************)

\* C29 (as claimed): in any device's registry, under any sequence of registry
\* operations and deliveries to the handshake endpoints (re-delivery of an
\* incoming-request RPC with the same request_id included), a request that has
\* reached accepted or rejected never has status pending again.
C29_NoReturnToPending ==
    [][\A d \in Devices : \A r \in DOMAIN mgr[d].pending_requests :
          mgr[d].pending_requests[r].status \in {"accepted", "rejected"}
          => /\ r \in DOMAIN mgr'[d].pending_requests
             /\ mgr'[d].pending_requests[r].status # "pending"]_vars

\* C30 (as claimed): the connection-accepted endpoint never creates a
\* Connection for a peer to which this device has no outstanding request: the
\* map gains an entry for P through that endpoint only when this device
\* created a request towards P that is still pending.
C30_AcceptedOnlyForOwnRequest ==
    [][\A p \in IPs :
          (/\ call'.op = "connection_accepted"
           /\ call'.ip = p
           /\ p \notin DOMAIN mgr[Bob].connections
           /\ p \in DOMAIN mgr'[Bob].connections)
          => \E r \in DOMAIN mgr[Bob].pending_requests :
                /\ mgr[Bob].pending_requests[r].from_ip = Bob
                /\ mgr[Bob].pending_requests[r].to_ip = p
                /\ mgr[Bob].pending_requests[r].status = "pending"]_vars

(***************************************************************************)
(* Claims about cancellation and the tracker's bookkeeping, checked under  *)
(* SpecXfer.                                                               *)
(***************************************************************************)

\* C31 (as claimed): if cancel_transfer(id) returns true at any point after the
\* tracker entry was created, the window between create_transfer and set_socket
\* included, then the transfer does not run to success: the receiver does not
\* keep the file as a success and the sender's send routine does not return
\* true.
C31_CancelStopsTransfer ==
    /\ <<Bob, RxId>> \in tcall.cancelled => hnd.outcome # "success"
    /\ <<Alice, TxId>> \in tcall.cancelled => snd.ret # "true"

\* C32 (as claimed): at every moment at which the inbound handler writes
\* payload bytes to disk, the sender's IP is in the connected set of the
\* receiver's registry; a disconnect of the sender while its transfer is in
\* flight stops further writes.
C32_WritesOnlyWhileConnected ==
    [][Len(disk'.bytes) > Len(disk.bytes) => is_connected(mgr[Bob], Alice)]_vars

\* C33 (as claimed): on the inbound path, when the receiver sends the 'OK'
\* acknowledgment the tracker entry of the transfer exists with status active
\* and the live socket is attached to it, so the entry is cancellable when the
\* first payload byte can arrive.
C33_TrackedBeforeAck ==
    [][(~hnd.acked /\ hnd'.acked)
       => /\ RxId \in DOMAIN trk[Bob].progress
          /\ trk[Bob].progress[RxId].status = "active"
          /\ RxId \in DOMAIN trk[Bob].sockets
          /\ trk[Bob].sockets[RxId] = "c"]_vars

(***************************************************************************)
(* The send routines by themselves (specification SpecSend): the three     *)
(* routines and the receiving handler, without cancellation, and with      *)
(* send_file also run on a file whose length is no longer the st_size it   *)
(* read before connecting (file_handler.py:417 and 442-449): the file was  *)
(* truncated or is still being written.                                    *)
(***************************************************************************)
NextSend ==
    \/ \E d \in Devices : XferConnected(d, CHOOSE p \in Devices : p # d)
    \/ \E kind \in Kinds, size \in 0..MaxBytes, srclen \in 0..MaxBytes :
          SendStart(kind, "f", size, srclen)
    \/ \E size \in 0..MaxBytes, srclen \in 0..MaxBytes :
          size # srclen /\ SendCall("file", "f", size, srclen)
    \/ SendBegin
    \/ SendConnect
    \/ SendConnectFail
    \/ SendStore
    \/ \E dropped \in BOOLEAN : SendMeta(dropped)
    \/ SendMetaError
    \/ \E k \in 1..2 : SendRecvAck(k)
    \/ SendRecvAckEOF
    \/ SendRecvAckError
    \/ \E dropped \in BOOLEAN : SendChunk(dropped)
    \/ SendChunkError
    \/ SendLoopEnd
    \/ SendClose
    \/ SendRouteEnd
    \/ HandleAuthReject
    \/ HandleAuthPass
    \/ HandleRecvMeta
    \/ HandleRecvMetaFails
    \/ HandleCreate
    \/ HandleSetSocket
    \/ \E dropped \in BOOLEAN : HandleAck(dropped)
    \/ HandleAckError
    \/ HandleOpen
    \/ HandleOpenError
    \/ \E k \in 1..OPTIMAL_CHUNK_SIZE : HandleRecvChunk(k)
    \/ HandleRecvDone
    \/ HandleRecvFails
    \/ HandleQuery
    \/ HandlePost
    \/ HandleFinal

SpecSend == Init /\ [][NextSend]_vars

\* C34 (as claimed): an outbound send routine returns true for a declared size
\* S > 0 only if it sent exactly S payload bytes; a source that yields fewer
\* or more than S bytes makes the routine return false.
C34_TrueOnlyIfAllSent ==
    (snd.kind \in Kinds /\ snd.ret = "true" /\ snd.size > 0) => snd.sent = snd.size

\* C38 (as claimed): no entry that a tracker query has returned reads status
\* 'cancelled': what the handler holds from get_progress never shows the
\* status that cancel_transfer writes.
C38_CancelledNeverObservable ==
    (hnd.pc = "check" /\ hnd.progress_info = "entry") =>
        referenced_status(trk[Bob], RxId) # "cancelled"

(***************************************************************************)
(* The progress tracker on its own (specification SpecTrk): the tracker of *)
(* alice's process and every call of its interface, in any order, each one *)
(* critical section under the tracker's lock.                              *)
(***************************************************************************)
\* cleanup_old_transfers (transfer_progress.py:163-174): the completed and
\* failed entries whose last update is more than max_age_seconds old leave
\* the progress map; `aged` is what the clock says, the ids that old
cleanup_old_transfers(t, aged) ==
    LET to_remove == {id \in DOMAIN t.progress :
                        t.progress[id].status \in {"completed", "failed"} /\ id \in aged}
    IN  [t EXCEPT !.progress = [id \in (DOMAIN t.progress) \ to_remove |-> t.progress[id]]]

\* one call of the tracker's interface that returns nothing: the tracker
\* afterwards, nothing else touched
TrackerCall(t) ==
    /\ trk' = [trk EXCEPT ![Alice] = t]
    /\ UNCHANGED <<snd, hnd, sock, net, disk, tcall>>
    /\ UNCHANGED regVars

\* a transfer id is a fresh uuid4: create_transfer is called with an id
\* the tracker holds nothing of
NextTrk ==
    \/ \E id \in {TxId, RxId}, file_size \in {0, MaxBytes} :
          /\ id \notin DOMAIN trk[Alice].progress
          /\ id \notin DOMAIN trk[Alice].sockets
          /\ TrackerCall(create_transfer(trk[Alice], id, "send", Alice, Bob, "f", file_size))
    \/ \E id \in {TxId, RxId} : TrackerCall(set_socket(trk[Alice], id, "s"))
    \/ \E id \in {TxId, RxId}, bytes_transferred \in 0..MaxBytes :
          TrackerCall(update_progress(trk[Alice], id, bytes_transferred))
    \/ \E id \in {TxId, RxId} : TrackerCall(complete_transfer(trk[Alice], id))
    \/ \E id \in {TxId, RxId} : TrackerCall(fail_transfer(trk[Alice], id))
    \/ \E id \in {TxId, RxId} : Cancel(Alice, id)
    \/ \E id \in {TxId, RxId} : TrackerCall(remove_transfer(trk[Alice], id))
    \/ \E aged \in SUBSET {TxId, RxId} : TrackerCall(cleanup_old_transfers(trk[Alice], aged))

SpecTrk == Init /\ [][NextTrk]_vars

\* C35 (as claimed): an entry whose status is completed or failed keeps that
\* status through every tracker call for as long as it is in the tracker.
C35_TerminalStatusStays ==
    [][\A id \in DOMAIN trk[Alice].progress :
          (/\ trk[Alice].progress[id].status \in {"completed", "failed"}
           /\ id \in DOMAIN trk'[Alice].progress)
          => trk'[Alice].progress[id].status = trk[Alice].progress[id].status]_vars

\* C40 (as claimed): every transfer id that has a socket registered has a
\* progress entry.
C40_SocketsWithinProgress ==
    \A d \in Devices : DOMAIN trk[d].sockets \subseteq DOMAIN trk[d].progress

(***************************************************************************)
(* Claims about concurrent callers of the registry, checked under SpecMgr: *)
(* every registry method runs under the registry's lock, so concurrent     *)
(* calls are the calls in some order.                                      *)
(***************************************************************************)
\* C36: of any number of accept_connection and reject_connection calls on one
\* request at most one accept_connection returns true and creates a
\* Connection: the call that returns true finds the request pending and
\* leaves it accepted, a request that has left pending never returns to it,
\* and an accept_connection that returns false creates no Connection.
C36_AtMostOneAccept ==
    [][/\ (call'.op = "accept_connection" /\ call'.result)
          => /\ call'.request_id \in DOMAIN mgr[Bob].pending_requests
             /\ mgr[Bob].pending_requests[call'.request_id].status = "pending"
             /\ mgr'[Bob].pending_requests[call'.request_id].status = "accepted"
       /\ \A r \in DOMAIN mgr[Bob].pending_requests :
             mgr[Bob].pending_requests[r].status # "pending"
             => /\ r \in DOMAIN mgr'[Bob].pending_requests
                /\ mgr'[Bob].pending_requests[r].status # "pending"
       /\ (call'.op = "accept_connection" /\ ~call'.result)
          => mgr'[Bob].connections = mgr[Bob].connections]_vars

\* a request was accepted, then rejected, and an accept_connection on it has
\* just returned false; the Connection of the first accept is there
C36_Witness ==
    /\ call.op = "accept_connection"
    /\ ~call.result
    /\ call.request_id \in DOMAIN mgr[Bob].pending_requests
    /\ mgr[Bob].pending_requests[call.request_id].status = "rejected"
    /\ call.ip \in DOMAIN mgr[Bob].connections

(***************************************************************************)
(* Claims about the tracker entries of a transfer, checked under SpecXfer. *)
(***************************************************************************)
\* C37: when the inbound handler or the upload route has returned, the
\* tracker entry it created is gone from the tracker or has status completed
\* or failed; none is left active.
C37_NoActiveEntryAfterReturn ==
    /\ (hnd.pc = "done" /\ hnd.transfer_id # "none" /\ RxId \in DOMAIN trk[Bob].progress)
       => trk[Bob].progress[RxId].status \in {"completed", "failed"}
    /\ (snd.pc = "done" /\ HasCallbacks(snd.kind) /\ TxId \in DOMAIN trk[Alice].progress)
       => trk[Alice].progress[TxId].status \in {"completed", "failed"}

\* both have returned, the handler after a failed receive, the route after a
\* send that failed, and both entries are there, failed
C37_Witness ==
    /\ hnd.pc = "done" /\ hnd.transfer_id # "none"
    /\ RxId \in DOMAIN trk[Bob].progress /\ trk[Bob].progress[RxId].status = "failed"
    /\ snd.pc = "done" /\ HasCallbacks(snd.kind)
    /\ TxId \in DOMAIN trk[Alice].progress /\ trk[Alice].progress[TxId].status = "failed"

\* C39 (as claimed): the bytes_transferred of a tracker entry never exceeds
\* the payload bytes that the sender has handed to the socket, or that the
\* receiver has read from it, so far.
C39_ProgressWithinBytesMoved ==
    /\ TxId \in DOMAIN trk[Alice].progress
       => trk[Alice].progress[TxId].bytes_transferred <= snd.sent
    /\ RxId \in DOMAIN trk[Bob].progress
       => trk[Bob].progress[RxId].bytes_transferred <= hnd.total

====
